---- MODULE Spec2Model ----
(***************************************************************************)
(* devlogs-feed: the ingestion pipeline (filter chain, relevance, ML       *)
(* verdict, priority), the pending queues and their batch flush, the       *)
(* post store with its purge, and the request ranker (serve_feed).         *)
(*                                                                         *)
(* Conventions of the model                                                *)
(*   - Strings the code takes apart (post text, language tags, link urls,  *)
(*     cursors) are sequences of one-character strings; identifiers the    *)
(*     code only compares (uris, dids) are plain strings.                  *)
(*   - f32 scores are fixed-point integers in thousandths (0.85 = 850).    *)
(*   - Time is counted in units of DECAY_EVERY_X_HOURS hours (one unit =   *)
(*     24 h = 86400 s), so that apply_time_decay's exponent is an integer  *)
(*     and DECAY_FACTOR^(age) = 3^age / 4^age is exact.                    *)
(*   - None is the string "none" (Option::None / SQL NULL).                *)
(***************************************************************************)
EXTENDS Integers, Sequences, FiniteSets, TLC

VARIABLES
  posts,                \* the posts table: a set of rows
  likes,                \* the likes table: a set of rows
  user_interactions,    \* the user_interactions table: a set of rows
  spammers,             \* the spammers table: a set of rows, one for each flagged did
  reposts,              \* the reposts table: a set of rows
  blocked_authors,      \* the blocked_authors table: a set of rows
  engagement_cache,     \* the engagement_cache table: a set of rows, one for each post_uri
  pending_posts,        \* GameDevFeedHandler.pending_posts
  pending_likes,        \* GameDevFeedHandler.pending_likes
  pending_deletes,      \* GameDevFeedHandler.pending_deletes
  pending_like_deletes, \* GameDevFeedHandler.pending_like_deletes
  now,                  \* Utc::now(), in time units
  phase,                \* main(): "backfill" until run_backfill returned, then "serving"
  ml_sent,              \* ML requests submitted by the most recent call (the spy)
  last_call,            \* the most recent call and its outcome
  feed_result,          \* what the most recent call returned: a FeedResult and its request, or NoFeed
  flush_task,           \* main()'s flush loop: "running", or "panicked" once a flush panicked
  pure_call,            \* the call of a pure function under way: its name, arguments and return value
  request_rx,           \* the mpsc channel of MLRequests: the queue the worker receives from
  batch,                \* run_ml_worker's batch
  worker,               \* where the worker thread is: "loading", "recv", "fill", "process", "terminated"
  callers,              \* the MLHandle::score calls: state, text and oneshot channel of each
  handle_live           \* some MLHandle (a Sender of the request channel) is alive

\* no pure function is being called
NoCall == [ fn |-> "none", args |-> << >>, result |-> << >> ]

\* the state of the handler, the store and the clock
handler_vars == << posts, likes, user_interactions, spammers, reposts, blocked_authors,
                   engagement_cache, pending_posts, pending_likes, pending_deletes,
                   pending_like_deletes, now, phase, ml_sent, last_call, feed_result,
                   flush_task, pure_call >>

\* the state of the ML worker and its callers
worker_vars == << request_rx, batch, worker, callers, handle_live >>

vars == << posts, likes, user_interactions, spammers, reposts, blocked_authors,
           engagement_cache, pending_posts, pending_likes, pending_deletes,
           pending_like_deletes, now, phase, ml_sent, last_call, feed_result,
           flush_task, pure_call, request_rx, batch, worker, callers, handle_live >>

None == "none"

(***************************************************************************)
(* Text primitives (ASCII).                                                *)
(***************************************************************************)
UPPER == << "A","B","C","D","E","F","G","H","I","J","K","L","M",
            "N","O","P","Q","R","S","T","U","V","W","X","Y","Z" >>

LOWER == << "a","b","c","d","e","f","g","h","i","j","k","l","m",
            "n","o","p","q","r","s","t","u","v","w","x","y","z" >>

DIGITS == << "0","1","2","3","4","5","6","7","8","9" >>

Range(s) == { s[i] : i \in DOMAIN s }

UPPER_SET == Range(UPPER)

ALNUM_SET == Range(UPPER) \cup Range(LOWER) \cup Range(DIGITS)

\* char::is_ascii_alphanumeric
IsAlnum(c) == c \in ALNUM_SET

\* \w of the regex crate, restricted to ASCII
IsWordChar(c) == IsAlnum(c) \/ c = "_"

IsSpace(c) == c = " "

LOWER_OF == [ c \in UPPER_SET |-> LOWER[CHOOSE i \in DOMAIN UPPER : UPPER[i] = c] ]

lower_char(c) == IF c \in UPPER_SET THEN LOWER_OF[c] ELSE c

to_lowercase(s) == [ i \in DOMAIN s |-> lower_char(s[i]) ]

\* str::find: the first index at which pat occurs in s, 0 when it does not
find(s, pat) ==
  LET hits == { i \in 1..(Len(s) - Len(pat) + 1) : SubSeq(s, i, i + Len(pat) - 1) = pat }
  IN  IF hits = {} THEN 0 ELSE CHOOSE i \in hits : \A j \in hits : i <= j

contains(s, pat) == find(s, pat) > 0

starts_with(s, pat) == Len(s) >= Len(pat) /\ SubSeq(s, 1, Len(pat)) = pat

eq_ignore_ascii_case(a, b) == to_lowercase(a) = to_lowercase(b)

\* str::trim
trim(s) ==
  LET keep == { i \in DOMAIN s : ~IsSpace(s[i]) }
  IN  IF keep = {} THEN << >>
      ELSE SubSeq(s, CHOOSE i \in keep : \A j \in keep : i <= j,
                     CHOOSE i \in keep : \A j \in keep : j <= i)

\* the end (exclusive) of the run of characters satisfying \w that starts at i
WordEnd(s, i) ==
  LET stops == { j \in i..Len(s) : ~IsWordChar(s[j]) }
  IN  IF stops = {} THEN Len(s) + 1 ELSE CHOOSE j \in stops : \A k \in stops : j <= k

\* the start indices of the matches of HASHTAG_PATTERN  #\w+
HashtagStarts(s) ==
  { i \in DOMAIN s : s[i] = "#" /\ i < Len(s) /\ IsWordChar(s[i + 1]) }

\* the indices covered by a match of HASHTAG_PATTERN
HashtagCover(s) ==
  { k \in DOMAIN s : \E i \in HashtagStarts(s) : i <= k /\ k < WordEnd(s, i + 1) }

RECURSIVE Select(_, _, _)
Select(s, keep, i) ==
  IF i > Len(s) THEN << >>
  ELSE (IF i \in keep THEN << s[i] >> ELSE << >>) \o Select(s, keep, i + 1)

strip_hashtags(text) == trim(Select(text, DOMAIN text \ HashtagCover(text), 1))

\* spec 4.A: total `#word` occurrences
count_all_hashtags(text) == Cardinality(HashtagStarts(text))

\* WORD_SPLIT.split(text).filter(|s| !s.is_empty()): the maximal alphanumeric runs
RECURSIVE SplitFrom(_, _, _)
SplitFrom(s, i, cur) ==
  IF i > Len(s) THEN (IF cur = << >> THEN << >> ELSE << cur >>)
  ELSE IF IsAlnum(s[i]) THEN SplitFrom(s, i + 1, Append(cur, s[i]))
  ELSE (IF cur = << >> THEN << >> ELSE << cur >>) \o SplitFrom(s, i + 1, << >>)

word_split(s) == SplitFrom(s, 1, << >>)

(***************************************************************************)
(* Vocabularies.                                                           *)
(***************************************************************************)
GAMEDEV_KEYWORDS ==
  << <<"g","a","m","e","d","e","v">>,
     <<"g","a","m","e"," ","d","e","v">>,
     <<"g","a","m","e"," ","d","e","v","e","l","o","p","m","e","n","t">>,
     <<"g","a","m","e"," ","a","n","i","m","a","t","i","o","n">>,
     <<"g","a","m","e"," ","a","r","t">>,
     <<"g","a","m","e"," ","a","u","d","i","o">>,
     <<"g","a","m","e"," ","d","e","s","i","g","n">>,
     <<"i","n","d","i","e","d","e","v">>,
     <<"i","n","d","i","e"," ","d","e","v">>,
     <<"d","e","v","l","o","g">>,
     <<"g","a","m","e"," ","j","a","m">>,
     <<"g","a","m","e","j","a","m">>,
     <<"u","e","5">>,
     <<"u","e","4">>,
     <<"g","o","d","o","t">>,
     <<"g","a","m","e","m","a","k","e","r">>,
     <<"g","a","m","e"," ","m","a","k","e","r">>,
     <<"r","p","g"," ","m","a","k","e","r">>,
     <<"c","o","n","s","t","r","u","c","t">>,
     <<"d","e","f","o","l","d">>,
     <<"m","o","n","o","g","a","m","e">>,
     <<"l","i","b","g","d","x">>,
     <<"p","h","a","s","e","r">>,
     <<"p","y","g","a","m","e">>,
     <<"l","o","v","e","2","d">>,
     <<"b","e","v","y">>,
     <<"m","a","c","r","o","q","u","a","d">>,
     <<"r","a","y","l","i","b">>,
     <<"s","d","l">>,
     <<"s","f","m","l">>,
     <<"a","s","e","p","r","i","t","e">>,
     <<"f","m","o","d">>,
     <<"w","w","i","s","e">>,
     <<"g","a","m","e"," ","e","n","g","i","n","e">>,
     <<"e","n","v","i","r","o","n","m","e","n","t"," ","d","e","s","i","g","n">>,
     <<"l","e","v","e","l"," ","d","e","s","i","g","n">>,
     <<"l","e","v","e","l"," ","e","d","i","t","o","r">>,
     <<"g","l","s","l">>,
     <<"w","g","s","l">> >>

GAMEDEV_HASHTAGS ==
  << <<"#","g","a","m","e","d","e","v">>,
     <<"#","i","n","d","i","e","d","e","v">>,
     <<"#","i","n","d","i","e","g","a","m","e">>,
     <<"#","i","n","d","i","e","g","a","m","e","s">>,
     <<"#","s","c","r","e","e","n","s","h","o","t","s","a","t","u","r","d","a","y">>,
     <<"#","m","a","d","e","w","i","t","h","u","n","i","t","y">>,
     <<"#","m","a","d","e","w","i","t","h","g","o","d","o","t">>,
     <<"#","m","a","d","e","w","i","t","h","u","n","r","e","a","l">>,
     <<"#","g","o","d","o","t">>,
     <<"#","b","e","v","y">>,
     <<"#","p","i","x","e","l","a","r","t">>,
     <<"#","d","e","v","l","o","g">>,
     <<"#","g","a","m","e","d","e","v","e","l","o","p","m","e","n","t">>,
     <<"#","r","u","s","t">>,
     <<"#","r","u","s","t","l","a","n","g">> >>

blocked_keywords ==
  << <<"c","r","y","p","t","o">>,
     <<"n","f","t">>,
     <<"w","e","b","3">>,
     <<"b","l","o","c","k","c","h","a","i","n">>,
     <<"m","i","n","t">>,
     <<"a","i","r","d","r","o","p">>,
     <<"w","h","i","t","e","l","i","s","t">>,
     <<"r","u","g","p","u","l","l">>,
     <<"s","o","l","a","n","a">>,
     <<"e","t","h","e","r","e","u","m">>,
     <<"b","i","t","c","o","i","n">>,
     <<"t","o","k","e","n"," ","s","a","l","e">>,
     <<"i","c","o">>,
     <<"h","o","d","l">> >>

blocked_hashtags ==
  << <<"#","n","f","t">>,
     <<"#","n","f","t","s">>,
     <<"#","n","f","t","a","r","t">>,
     <<"#","n","f","t","g","a","m","i","n","g">>,
     <<"#","c","r","y","p","t","o">>,
     <<"#","c","r","y","p","t","o","c","u","r","r","e","n","c","y">>,
     <<"#","w","e","b","3">>,
     <<"#","w","e","b","3","g","a","m","i","n","g">>,
     <<"#","b","l","o","c","k","c","h","a","i","n">>,
     <<"#","f","r","e","e","m","i","n","t">>,
     <<"#","a","i","r","d","r","o","p">>,
     <<"#","s","o","l","a","n","a">>,
     <<"#","e","t","h","e","r","e","u","m">>,
     <<"#","b","i","t","c","o","i","n">> >>

PROMO_DOMAINS ==
  << <<"s","t","o","r","e",".","s","t","e","a","m","p","o","w","e","r","e","d",".","c","o","m">>,
     <<"s","t","e","a","m","p","o","w","e","r","e","d",".","c","o","m">>,
     <<"i","t","c","h",".","i","o">>,
     <<"t","w","i","t","c","h",".","t","v">>,
     <<"f","i","v","e","r","r",".","c","o","m">>,
     <<"k","i","c","k","s","t","a","r","t","e","r",".","c","o","m">>,
     <<"i","n","d","i","e","g","o","g","o",".","c","o","m">>,
     <<"p","a","t","r","e","o","n",".","c","o","m">>,
     <<"k","o","-","f","i",".","c","o","m">>,
     <<"b","u","y","m","e","a","c","o","f","f","e","e",".","c","o","m">>,
     <<"g","o","g",".","c","o","m">>,
     <<"e","p","i","c","g","a","m","e","s",".","c","o","m">>,
     <<"h","u","m","b","l","e","b","u","n","d","l","e",".","c","o","m">>,
     <<"g","a","m","e","j","o","l","t",".","c","o","m">>,
     <<"y","o","u","t","u","b","e",".","c","o","m">>,
     <<"y","o","u","t","u",".","b","e">>,
     <<"p","l","a","y","t","e","s","t","e","r",".","i","o">>,
     <<"b","u","f","f",".","l","y">>,
     <<"b","i","t",".","l","y">> >>

FIRST_PERSON ==
  << <<"i"," ">>,
     <<"i","'">>,
     <<"w","e"," ">>,
     <<"w","e","'">>,
     <<"m","y"," ">>,
     <<"o","u","r"," ">> >>

(***************************************************************************)
(* Lexical analysis: scoring/relevance.rs, scoring/content.rs.             *)
(***************************************************************************)
\* slice::windows(n).any(...) over the words of the text
contains_keyword(text, keyword) ==
  LET keyword_parts == word_split(keyword)
      words == word_split(text)
      n == Len(keyword_parts)
  IN  IF n = 1
      THEN \E i \in DOMAIN words : eq_ignore_ascii_case(words[i], keyword)
      ELSE \E i \in 1..(Len(words) - n + 1) :
             \A k \in 1..n : eq_ignore_ascii_case(words[i + k - 1], keyword_parts[k])

keyword_count(text) ==
  LET text_lower == to_lowercase(text)
  IN  Cardinality({ k \in DOMAIN GAMEDEV_KEYWORDS :
                      contains_keyword(text_lower, GAMEDEV_KEYWORDS[k]) })

\* has_keywords(text).0
has_keywords(text) == keyword_count(text) > 0

hashtag_count(text) ==
  LET text_lower == to_lowercase(text)
  IN  Cardinality({ k \in DOMAIN GAMEDEV_HASHTAGS : contains(text_lower, GAMEDEV_HASHTAGS[k]) })

\* has_hashtags(text).0
has_hashtags(text) == hashtag_count(text) > 0

detect_first_person(text) ==
  LET text_lower == to_lowercase(text)
  IN  \E k \in DOMAIN FIRST_PERSON : contains(text_lower, FIRST_PERSON[k])

SCHEME_SEP == << ":", "/", "/" >>

is_promo_domain(url) ==
  LET url_lower == to_lowercase(url)
      domain_start == find(url_lower, SCHEME_SEP)
  IN  IF domain_start = 0 THEN FALSE
      ELSE LET domain_part == SubSeq(url_lower, domain_start + 3, Len(url_lower))
               slash == find(domain_part, << "/" >>)
               domain_end == IF slash = 0 THEN Len(domain_part) ELSE slash - 1
               domain == SubSeq(domain_part, 1, domain_end)
           IN  \E k \in DOMAIN PROMO_DOMAINS : contains(domain, PROMO_DOMAINS[k])

Min(a, b) == IF a < b THEN a ELSE b

Max(a, b) == IF a < b THEN b ELSE a

U8_MAX == 255

\* u8::saturating_add(1)
saturating_inc(n) == Min(n + 1, U8_MAX)

\* MediaInfo::default()
MediaInfo_default ==
  [ image_count |-> 0, has_video |-> FALSE, has_alt_text |-> FALSE,
    external_uri |-> None, facet_links |-> << >> ]

RECURSIVE CountLinks(_, _, _, _)
CountLinks(links, i, link_count, promo_link_count) ==
  IF i > Len(links) THEN << link_count, promo_link_count >>
  ELSE CountLinks(links, i + 1, saturating_inc(link_count),
                  IF is_promo_domain(links[i]) THEN saturating_inc(promo_link_count)
                  ELSE promo_link_count)

extract_content_signals(text, media) ==
  LET facets == CountLinks(media.facet_links, 1, 0, 0)
      all == IF media.external_uri # None
             THEN << saturating_inc(facets[1]),
                     IF is_promo_domain(media.external_uri)
                     THEN saturating_inc(facets[2]) ELSE facets[2] >>
             ELSE facets
  IN  [ is_first_person |-> detect_first_person(text),
        images |-> media.image_count,
        has_video |-> media.has_video,
        has_alt_text |-> media.has_alt_text,
        link_count |-> all[1],
        promo_link_count |-> all[2] ]

(***************************************************************************)
(* The filter chain: scoring/filters.rs.                                   *)
(***************************************************************************)
Pass == [ kind |-> "Pass" ]

Reject(filter, arg) == [ kind |-> "Reject", filter |-> filter, arg |-> arg ]

IsReject(r) == r.kind = "Reject"

min_text_length == 20

max_hashtags == 6

EN == << "e", "n" >>

\* the first element of a list a text contains, 0 when there is none
FirstContained(text_lower, list) ==
  LET hits == { k \in DOMAIN list : contains(text_lower, list[k]) }
  IN  IF hits = {} THEN 0 ELSE CHOOSE k \in hits : \A j \in hits : k <= j

\* a filter chain that looks at the language before the length
apply_filters_language_first(text, lang, author_did, media, spammer_set, blocked_set) ==
  LET text_lower == to_lowercase(text)
      kw == FirstContained(text_lower, blocked_keywords)
      ht == FirstContained(text_lower, blocked_hashtags)
      has_promo == \/ \E i \in DOMAIN media.facet_links : is_promo_domain(media.facet_links[i])
                   \/ (media.external_uri # None /\ is_promo_domain(media.external_uri))
      n_hashtags == count_all_hashtags(text)
  IN  IF lang # None /\ ~starts_with(lang, EN) THEN Reject("EnglishOnly", None)
      ELSE IF Len(strip_hashtags(text)) < min_text_length THEN Reject("MinLength", None)
      ELSE IF kw # 0 THEN Reject("BlockedKeyword", blocked_keywords[kw])
      ELSE IF ht # 0 THEN Reject("BlockedHashtag", blocked_hashtags[ht])
      ELSE IF author_did # None /\ author_did \in blocked_set THEN Reject("BlockedAuthor", None)
      ELSE IF author_did # None /\ author_did \in spammer_set THEN Reject("Spammer", None)
      ELSE IF has_promo THEN Reject("PromoLink", None)
      ELSE IF n_hashtags > max_hashtags THEN Reject("TooManyHashtags", n_hashtags)
      ELSE Pass

\* spammer_check and blocked_author_check are given as the sets they decide
apply_filters(text, lang, author_did, media, spammer_set, blocked_set) ==
  LET text_lower == to_lowercase(text)
      kw == FirstContained(text_lower, blocked_keywords)
      ht == FirstContained(text_lower, blocked_hashtags)
      has_promo == \/ \E i \in DOMAIN media.facet_links : is_promo_domain(media.facet_links[i])
                   \/ (media.external_uri # None /\ is_promo_domain(media.external_uri))
      n_hashtags == count_all_hashtags(text)
  IN  IF Len(strip_hashtags(text)) < min_text_length THEN Reject("MinLength", None)
      ELSE IF lang # None /\ ~starts_with(lang, EN) THEN Reject("EnglishOnly", None)
      ELSE IF kw # 0 THEN Reject("BlockedKeyword", blocked_keywords[kw])
      ELSE IF ht # 0 THEN Reject("BlockedHashtag", blocked_hashtags[ht])
      ELSE IF author_did # None /\ author_did \in blocked_set THEN Reject("BlockedAuthor", None)
      ELSE IF author_did # None /\ author_did \in spammer_set THEN Reject("Spammer", None)
      ELSE IF has_promo THEN Reject("PromoLink", None)
      ELSE IF n_hashtags > max_hashtags THEN Reject("TooManyHashtags", n_hashtags)
      ELSE Pass

(***************************************************************************)
(* ML verdict, score and priority: scoring/score.rs, scoring/priority.rs.  *)
(***************************************************************************)
LABEL_SHARING == "game developer sharing their own work"

LABEL_PROGRAMMING == "game programming or technical development"

LABEL_UNRELATED == "unrelated"

\* MLScores::default(): what a failed or dead worker answers
MLScores_default ==
  [ classification_score |-> 0, semantic_score |-> 0, best_label |-> "",
    best_label_score |-> 0, is_negative_label |-> FALSE, negative_rejection |-> FALSE,
    engagement_bait_score |-> 0, synthetic_score |-> 0, authenticity_score |-> 0 ]

NEGATIVE_REJECTION_MIN == 850

\* negative_rejection for every negative label, however unsure the classifier
negative_rejection_any_negative(topic) == topic.is_negative_label

\* run_ml_worker: topic.is_negative_label && topic.best_label_score >= 0.85
negative_rejection(topic) ==
  topic.is_negative_label /\ topic.best_label_score >= NEGATIVE_REJECTION_MIN

\* the MLScores the worker sends for one text of the batch
worker_answer(topic) == [ topic EXCEPT !.negative_rejection = negative_rejection(topic) ]

\* What the models make of a text (external collaborators): a clear devlog, a clear
\* devlog that reads as engagement bait, a confidently negative label, and a
\* negative label the classifier is not sure of.
ModelOutputs ==
  { [ MLScores_default EXCEPT !.classification_score = 900, !.semantic_score = 700,
        !.best_label = LABEL_SHARING, !.best_label_score = 900,
        !.authenticity_score = 300 ],
    [ MLScores_default EXCEPT !.classification_score = 800, !.semantic_score = 500,
        !.best_label = LABEL_PROGRAMMING, !.best_label_score = 800,
        !.engagement_bait_score = 900 ],
    [ MLScores_default EXCEPT !.classification_score = 100, !.semantic_score = 300,
        !.best_label = LABEL_UNRELATED, !.best_label_score = 900,
        !.is_negative_label = TRUE ],
    [ MLScores_default EXCEPT !.classification_score = 400, !.semantic_score = 900,
        !.best_label = LABEL_UNRELATED, !.best_label_score = 600,
        !.is_negative_label = TRUE ] }

\* The answers MLHandle::score returns: what the worker sent, or the all-zero
\* default when the worker is gone.
MLAnswers == { worker_answer(topic) : topic \in ModelOutputs } \cup { MLScores_default }

ml_rejection == 850

\* spec 4.E step 6: a negative top label at or above the rejection threshold
apply_ml_filter(best_label, best_label_score, is_negative_label) ==
  IF is_negative_label /\ best_label_score >= ml_rejection
  THEN Reject("NegativeLabel", best_label)
  ELSE Pass

\* the per-label configured boost (settings: scoring.topic_boosts)
label_boost(label) ==
  IF label = LABEL_SHARING THEN 400
  ELSE IF label = LABEL_PROGRAMMING THEN 200
  ELSE 600

weights_topic == 800

weights_semantic == 200

thresholds_score == 500

calculate_score(classification_score, semantic_score) ==
  [ classification_score |-> classification_score,
    semantic_score |-> semantic_score,
    final_score |-> (classification_score * weights_topic
                     + semantic_score * weights_semantic) \div 1000 ]

passes_threshold(score) == score.final_score >= thresholds_score

POOR_QUALITY_PENALTY_MIN == 500

GOOD_QUALITY_BOOST_MIN == 100

ENGAGEMENT_BOOST_MIN == 50

BONUS_FIRST_PERSON == 400

BONUS_VIDEO == 200

BONUS_IMAGE_WITH_ALT == 200

PENALTY_MANY_IMAGES == 600

PENALTY_LINK_EXPO == 3

PENALTY_PROMO_LINK == 1500

MANY_IMAGES_THRESHOLD == 3

REPLY_WEIGHT == 3

REPOST_WEIGHT == 2

LIKE_WEIGHT == 1

VELOCITY_SCALE == 100

MAX_ENGAGEMENT_BOOST == 500

\* f32::powi for a base and exponent that are whole numbers
RECURSIVE powi(_, _)
powi(base, n) == IF n = 0 THEN 1 ELSE base * powi(base, n - 1)

\* 1000 * ln(1 + x) for the whole numbers the model feeds it (rounded)
LN_1P == << 693, 1099, 1386, 1609, 1792, 1946, 2079, 2197, 2303 >>

ln_1p(x) == IF x <= 0 THEN 0 ELSE LN_1P[Min(x, Len(LN_1P))]

\* PrioritySignals::default()
PrioritySignals_default ==
  [ topic_label |-> "", label_boost |-> 0, engagement_bait_score |-> 0,
    synthetic_score |-> 0, authenticity_score |-> 0, is_first_person |-> FALSE,
    images |-> 0, has_video |-> FALSE, has_alt_text |-> FALSE, link_count |-> 0,
    promo_link_count |-> 0, engagement_velocity |-> 0, reply_count |-> 0,
    repost_count |-> 0, like_count |-> 0 ]

calculate_engagement_boost(signals) ==
  IF signals.engagement_velocity > 0
  THEN Min((ln_1p(signals.engagement_velocity) * VELOCITY_SCALE) \div 1000,
           MAX_ENGAGEMENT_BOOST)
  ELSE LET weighted == signals.reply_count * REPLY_WEIGHT
                       + signals.repost_count * REPOST_WEIGHT
                       + signals.like_count * LIKE_WEIGHT
       IN  Min((ln_1p(weighted) * VELOCITY_SCALE) \div 1000, MAX_ENGAGEMENT_BOOST)

(***************************************************************************)
(* f32 arithmetic.  A value below 2^20 in magnitude is kept in thousandths. *)
(* From 2^20 on the f32 grid is 1/8 or coarser: such a value x is kept as   *)
(* 2^30 + 8|x| with the sign of x, rounded to the grid of its binade (24    *)
(* significant bits, ties to even).  The encoding keeps the order.          *)
(***************************************************************************)
F32_FINE == 2^20

F32_BIG == 2^30

Abs(x) == IF x < 0 THEN -x ELSE x

\* the spacing, in eighths, of the f32 values around a magnitude of e eighths
f32_ulp(e) == CHOOSE u \in { 2^i : i \in 0..7 } : u * 8 * F32_FINE <= e /\ e < u * 16 * F32_FINE

\* the magnitude of e eighths and r thousandths (r < 125), as f32 keeps it
f32_round(e, r) ==
  IF e < 8 * F32_FINE THEN e * 125 + r
  ELSE LET u == f32_ulp(e)
           f == (e \div u) * u
           rest == (e - f) * 125 + r
       IN  F32_BIG + (CASE 2 * rest < u * 125 -> f
                        [] 2 * rest > u * 125 -> f + u
                        [] OTHER -> IF (f \div u) % 2 = 0 THEN f ELSE f + u)

\* the eighths and the thousandths left over of a kept magnitude
f32_eighths(x) == IF x >= F32_BIG THEN x - F32_BIG ELSE x \div 125

f32_rest(x) == IF x >= F32_BIG THEN 0 ELSE x % 125

\* a + b in f32
f32_add(a, b) ==
  IF /\ Abs(a) < 1000 * F32_FINE
     /\ Abs(b) < 1000 * F32_FINE
     /\ Abs(a + b) < 1000 * F32_FINE
  THEN a + b
  ELSE LET sa == IF a < 0 THEN -1 ELSE 1
           sb == IF b < 0 THEN -1 ELSE 1
           \* the exact sum in thousandths of an eighth: 125 * eighths + thousandths
           hi == sa * f32_eighths(Abs(a)) + sb * f32_eighths(Abs(b))
           lo == sa * f32_rest(Abs(a)) + sb * f32_rest(Abs(b))
           e == hi + (lo \div 125)
           r == lo % 125
           neg == e < 0
           ea == IF neg THEN (IF r = 0 THEN -e ELSE -e - 1) ELSE e
           ra == IF neg /\ r # 0 THEN 125 - r ELSE r
       IN  IF neg THEN -f32_round(ea, ra) ELSE f32_round(ea, ra)

\* a - b in f32
f32_sub(a, b) == f32_add(a, -b)

\* the whole number n as an f32
f32_of(n) == IF n < F32_FINE THEN 1000 * n ELSE f32_round(8 * n, 0)

IfSeq(cond, entry) == IF cond THEN << entry >> ELSE << >>

calculate_priority(score, signals) ==
  LET bait == signals.engagement_bait_score >= POOR_QUALITY_PENALTY_MIN
      synth == signals.synthetic_score >= POOR_QUALITY_PENALTY_MIN
      quality_penalty == (IF bait THEN signals.engagement_bait_score ELSE 0)
                         + (IF synth THEN signals.synthetic_score ELSE 0)
      alt == signals.images > 0 /\ signals.has_alt_text
      many == signals.images >= MANY_IMAGES_THRESHOLD
      link_penalty == IF signals.link_count > 0
                      THEN f32_of(powi(PENALTY_LINK_EXPO, signals.link_count)) ELSE 0
      promo_penalty == IF signals.promo_link_count > 0
                       THEN signals.promo_link_count * PENALTY_PROMO_LINK ELSE 0
      bonuses == (IF signals.is_first_person THEN BONUS_FIRST_PERSON ELSE 0)
                 + (IF signals.has_video THEN BONUS_VIDEO ELSE 0)
                 + (IF alt THEN BONUS_IMAGE_WITH_ALT ELSE 0)
                 - (IF many THEN PENALTY_MANY_IMAGES ELSE 0)
      content_modifier == f32_sub(f32_sub(bonuses, link_penalty), promo_penalty)
      engagement_boost == calculate_engagement_boost(signals)
      authenticity_boost == signals.authenticity_score
      final_priority ==
        f32_sub(f32_add(f32_add(f32_add(f32_add(score.final_score, content_modifier),
                                        engagement_boost),
                                authenticity_boost),
                        signals.label_boost),
                quality_penalty)
  IN  [ quality_penalty |-> quality_penalty,
        content_modifier |-> content_modifier,
        engagement_boost |-> engagement_boost,
        authenticity_boost |-> authenticity_boost,
        label_boost |-> signals.label_boost,
        final_priority |-> final_priority,
        topic_label |-> signals.topic_label,
        boost_reasons |-> IfSeq(signals.is_first_person, "first-person:")
                          \o IfSeq(signals.has_video, "video:")
                          \o IfSeq(alt, "alt-text:")
                          \o IfSeq(engagement_boost >= ENGAGEMENT_BOOST_MIN, "trending:")
                          \o IfSeq(authenticity_boost >= GOOD_QUALITY_BOOST_MIN, "authentic:")
                          \o << "topic:" >>,
        penalty_reasons |-> IfSeq(bait, "engagement-bait:")
                            \o IfSeq(synth, "synthetic:")
                            \o IfSeq(many, "images:")
                            \o IfSeq(signals.link_count > 0, "links:")
                            \o IfSeq(signals.promo_link_count > 0, "promo-links:") ]

(***************************************************************************)
(* The store: db.rs.  A row of posts keeps the columns the model reads:    *)
(* uri (primary key), timestamp, priority, author_did.  A row of likes is  *)
(* (post_uri, like_uri), its primary key.                                  *)
(***************************************************************************)
NewPost(uri, timestamp, priority, author_did) ==
  [ uri |-> uri, timestamp |-> timestamp, priority |-> priority, author_did |-> author_did ]

NewLike(post_uri, like_uri) == [ post_uri |-> post_uri, like_uri |-> like_uri ]

Uris(tbl) == { r.uri : r \in tbl }

post_exists(tbl, post_uri) == Cardinality({ r \in tbl : r.uri = post_uri }) > 0

\* INSERT OR REPLACE of one row: a row whose primary key is taken is overwritten
insert_or_replace_post(tbl, row) == { r \in tbl : r.uri # row.uri } \cup { row }

\* INSERT OR IGNORE of one row: a row whose primary key is taken is skipped
insert_or_ignore_post(tbl, row) ==
  IF \E r \in tbl : r.uri = row.uri THEN tbl ELSE tbl \cup { row }

RECURSIVE InsertPostsFrom(_, _, _)
InsertPostsFrom(tbl, new_posts, i) ==
  IF i > Len(new_posts) THEN tbl
  ELSE InsertPostsFrom(insert_or_ignore_post(tbl, new_posts[i]), new_posts, i + 1)

insert_posts(tbl, new_posts) == InsertPostsFrom(tbl, new_posts, 1)

\* insert_likes with no look at the posts table
insert_likes_unchecked(post_tbl, like_tbl, new_likes) ==
  like_tbl \cup { new_likes[i] : i \in DOMAIN new_likes }

insert_likes(post_tbl, like_tbl, new_likes) ==
  LET existing_posts == { r.uri : r \in { p \in post_tbl :
                                           \E i \in DOMAIN new_likes : new_likes[i].post_uri = p.uri } }
      valid_likes == { new_likes[i] : i \in { j \in DOMAIN new_likes :
                                                new_likes[j].post_uri \in existing_posts } }
  IN  like_tbl \cup valid_likes

db_delete_post(tbl, post_uri) == { r \in tbl : r.uri # post_uri }

db_delete_like(like_tbl, like_uri_val) == { l \in like_tbl : l.like_uri # like_uri_val }

\* the sequences that list every row of tbl once
RowOrders(tbl) ==
  LET n == Cardinality(tbl)
  IN  { s \in [ 1..n -> tbl ] : \A i, j \in 1..n : i # j => s[i] # s[j] }

\* ORDER BY timestamp DESC, priority DESC
FeedBefore(a, b) ==
  \/ a.timestamp > b.timestamp
  \/ (a.timestamp = b.timestamp /\ a.priority > b.priority)

\* posts.filter(timestamp > cutoff).order((timestamp.desc(), priority.desc())):
\* every order the engine may return (rows that tie on the key come in any order)
get_feed(tbl, cutoff_timestamp) ==
  { s \in RowOrders({ r \in tbl : r.timestamp > cutoff_timestamp }) :
      \A i, j \in DOMAIN s : i < j => ~FeedBefore(s[j], s[i]) }

\* None when no row (or a NULL author) is found
get_post_author(tbl, post_uri) ==
  IF \E r \in tbl : r.uri = post_uri
  THEN (CHOOSE r \in tbl : r.uri = post_uri).author_did
  ELSE None

\* the same query ordered by timestamp.desc(): the newest rows
newest_uris(tbl, excess) ==
  { { s[i].uri : i \in 1..excess } :
      s \in { t \in RowOrders(tbl) :
                \A i, j \in DOMAIN t : i < j => t[i].timestamp >= t[j].timestamp } }

\* posts.order(timestamp.asc()).limit(excess).select(uri): every answer the engine
\* may give (rows of equal timestamp come in any order)
oldest_uris(tbl, excess) ==
  { { s[i].uri : i \in 1..excess } :
      s \in { t \in RowOrders(tbl) :
                \A i, j \in DOMAIN t : i < j => t[i].timestamp <= t[j].timestamp } }

\* cleanup_old_posts without the cap: the age purge alone
db_cleanup_age_only(tbl, cutoff_timestamp, max_posts) ==
  { { r \in tbl : ~(r.timestamp < cutoff_timestamp) } }

\* the tables cleanup_old_posts may leave: the age purge, then the cap
db_cleanup_old_posts(tbl, cutoff_timestamp, max_posts) ==
  LET aged == { r \in tbl : ~(r.timestamp < cutoff_timestamp) }
      count == Cardinality(aged)
  IN  IF count > max_posts
      THEN { { r \in aged : r.uri \notin uris_to_delete } :
               uris_to_delete \in oldest_uris(aged, count - max_posts) }
      ELSE { aged }

INTERACTION_SEEN == "seen"

INTERACTION_REQUEST_LESS == "request_less"

INTERACTION_REQUEST_MORE == "request_more"

NewInteraction(user_did, post_uri, interaction_type, created_at) ==
  [ user_did |-> user_did, post_uri |-> post_uri,
    interaction_type |-> interaction_type, created_at |-> created_at ]

\* a row of user_interactions: the columns of NewInteraction and the rowid
StoredInteraction(row, rowid) ==
  [ user_did |-> row.user_did, post_uri |-> row.post_uri,
    interaction_type |-> row.interaction_type, created_at |-> row.created_at,
    rowid |-> rowid ]

\* the unique key of user_interactions
interaction_key(r) == << r.user_did, r.post_uri, r.interaction_type, r.created_at >>

\* the rowid the engine gives the next row
next_rowid(tbl) ==
  IF tbl = {} THEN 1 ELSE 1 + (CHOOSE n \in { r.rowid : r \in tbl } : \A r \in tbl : r.rowid <= n)

\* INSERT of one row with no look at the unique key
insert_interaction_plain(tbl, row) == tbl \cup { StoredInteraction(row, next_rowid(tbl)) }

\* INSERT OR IGNORE of one row: a row whose unique key is taken is skipped
insert_or_ignore_interaction(tbl, row) ==
  IF \E r \in tbl : interaction_key(r) = interaction_key(row) THEN tbl
  ELSE tbl \cup { StoredInteraction(row, next_rowid(tbl)) }

RECURSIVE InsertInteractionsFrom(_, _, _)
InsertInteractionsFrom(tbl, interactions, i) ==
  IF i > Len(interactions) THEN tbl
  ELSE InsertInteractionsFrom(insert_or_ignore_interaction(tbl, interactions[i]),
                              interactions, i + 1)

insert_interactions(tbl, interactions) ==
  IF interactions = << >> THEN tbl ELSE InsertInteractionsFrom(tbl, interactions, 1)

\* the rows come back in any order; serve_feed collects them into a HashSet
get_user_seen_posts(tbl, did, cutoff_timestamp) ==
  { i.post_uri : i \in { x \in tbl : /\ x.user_did = did
                                     /\ x.interaction_type = INTERACTION_SEEN
                                     /\ x.created_at > cutoff_timestamp } }

get_user_preferences(tbl, did) ==
  { [ post_uri |-> x.post_uri,
      is_request_more |-> (x.interaction_type = INTERACTION_REQUEST_MORE) ] :
    x \in { y \in tbl : /\ y.user_did = did
                        /\ y.interaction_type \in { INTERACTION_REQUEST_LESS,
                                                    INTERACTION_REQUEST_MORE } } }

(***************************************************************************)
(* The connection pool and the moderation tables: db.rs, main.rs.          *)
(***************************************************************************)
\* the connection main() takes from the pool and hands to configure_connection
configured_connection == [ foreign_keys |-> TRUE ]

\* a connection the pool opened and nobody configured: the engine's default
fresh_connection == [ foreign_keys |-> FALSE ]

\* pool.get(): any connection of the pool built by establish_pool
pool_get == { configured_connection, fresh_connection }

\* likes.post_uri references posts.uri ON DELETE CASCADE: on a connection with
\* foreign_keys on, the likes of each post row a statement deleted go with it
on_delete_cascade(like_tbl, post_tbl_before, post_tbl_after, conn) ==
  IF conn.foreign_keys
  THEN { l \in like_tbl : l.post_uri \notin (Uris(post_tbl_before) \ Uris(post_tbl_after)) }
  ELSE like_tbl

NewBlockedAuthor(did, post_uri, blocked_at) ==
  [ did |-> did, post_uri |-> post_uri, blocked_at |-> blocked_at ]

is_blocked_author(blocked_tbl, author_did) ==
  Cardinality({ b \in blocked_tbl : b.did = author_did }) > 0

\* insert_or_ignore_into(blocked_authors): did is the primary key
block_author(blocked_tbl, blocked) ==
  IF \E b \in blocked_tbl : b.did = blocked.did THEN blocked_tbl
  ELSE blocked_tbl \cup { blocked }

delete_posts_by_author(tbl, did) == { r \in tbl : r.author_did # did }
(***************************************************************************)
(* Bounds and the events of the model's world.                             *)
(***************************************************************************)
\* the handler constants, scaled to the size of the model's world
FEED_DEFAULT_LIMIT == 1

FEED_MAX_LIMIT == 2

MAX_STORED_POSTS == 2

BACKFILL_LIMIT == 2

\* events buffered between two flushes, over the four pending queues
MaxPending == 2

\* the clock runs from StartTime to StartTime + MaxTicks
MaxTicks == 1

FEED_CUTOFF_HOURS == 168

DECAY_EVERY_X_HOURS == 24

\* the cutoff in time units
FEED_CUTOFF == FEED_CUTOFF_HOURS \div DECAY_EVERY_X_HOURS

StartTime == FEED_CUTOFF + 1

DIDS == { "did:a1", "did:a2" }

LIKE_URIS == { "like:1" }

\* the posts the likes of the model point at
LIKED_URIS == { "at://a1/1" }

EN_TAG == << "e", "n" >>

PT_TAG == << "p", "t" >>

TEXT_HI == << "h","i" >>

TEXT_NFT ==
  << "C","h","e","c","k"," ","o","u","t"," ","m","y"," ","n","e","w"," ","N","F","T",
     " ","g","a","m","e"," ","c","o","l","l","e","c","t","i","o","n" >>

TEXT_DEVLOG ==
  << "I"," ","m","a","d","e"," ","a"," ","#","g","a","m","e","d","e","v"," ","b","o",
     "s","s"," ","f","i","g","h","t"," ","t","o","d","a","y" >>

TEXT_GODOT ==
  << "G","o","d","o","t"," ","s","h","a","d","e","r"," ","p","r","o","g","r","e","s",
     "s"," ","f","o","r"," ","t","h","e"," ","w","e","e","k" >>

TEXT_WEATHER ==
  << "T","h","e"," ","w","e","a","t","h","e","r"," ","i","s"," ","r","e","a","l","l",
     "y"," ","n","i","c","e"," ","t","o","d","a","y" >>

URL_EXAMPLE ==
  << "h","t","t","p","s",":","/","/","e","x","a","m","p","l","e",".","c","o","m","/",
     "d","e","v","l","o","g" >>

URL_ITCH ==
  << "h","t","t","p","s",":","/","/","i","t","c","h",".","i","o","/","m","y","g","a",
     "m","e" >>

NoEmbed == [ tag |-> "None" ]

\* skyfeed::Post as the handler reads it; reply is `post.reply.is_some()`
Post(uri, author_did, text, langs, timestamp, reply, embed) ==
  [ uri |-> uri, author_did |-> author_did, text |-> text, langs |-> langs,
    timestamp |-> timestamp, reply |-> reply, embed |-> embed ]

\* The posts of the world.  A uri names one record: its author, text and embed
\* are fixed; the firehose supplies the timestamp with the event.
Record(uri) ==
  CASE uri = "at://a1/1" ->
         Post(uri, "did:a1", TEXT_DEVLOG, << EN_TAG >>, 0, FALSE, NoEmbed)
    [] uri = "at://a2/1" ->
         Post(uri, "did:a2", TEXT_GODOT, << >>, 0, FALSE,
              [ tag |-> "External", uri |-> URL_EXAMPLE ])
    [] uri = "at://a1/2" ->
         Post(uri, "did:a1", TEXT_DEVLOG, << EN_TAG >>, 0, FALSE,
              [ tag |-> "Images", alt_texts |-> << << >>, << "a" >> >> ])
    [] uri = "at://a2/2" ->
         Post(uri, "did:a2", TEXT_DEVLOG, << EN_TAG >>, 0, FALSE, NoEmbed)
    [] uri = "at://a1/3" ->
         Post(uri, "did:a1", TEXT_GODOT, << >>, 0, FALSE,
              [ tag |-> "External", uri |-> URL_EXAMPLE ])
    [] uri = "at://a2/short" ->
         Post(uri, "did:a2", TEXT_HI, << EN_TAG >>, 0, FALSE, NoEmbed)
    [] uri = "at://a2/nft" ->
         Post(uri, "did:a2", TEXT_NFT, << EN_TAG >>, 0, FALSE, NoEmbed)
    [] uri = "at://a2/pt" ->
         Post(uri, "did:a2", TEXT_DEVLOG, << PT_TAG >>, 0, FALSE, NoEmbed)
    [] uri = "at://a2/weather" ->
         Post(uri, "did:a2", TEXT_WEATHER, << EN_TAG >>, 0, FALSE, NoEmbed)
    [] uri = "at://a2/reply" ->
         Post(uri, "did:a2", TEXT_DEVLOG, << EN_TAG >>, 0, TRUE, NoEmbed)

\* the uris of records the pipeline can accept
URIS == { "at://a1/1", "at://a2/1", "at://a1/2" }

\* the uris of records the pipeline drops
DROPPED_URIS == { "at://a2/short", "at://a2/nft", "at://a2/pt", "at://a2/weather",
                  "at://a2/reply" }

\* the timestamps a post may carry (createdAt is the author's word): one that the
\* first tick of the clock moves past the cutoff, and the start of the run
PostTimes == { StartTime - FEED_CUTOFF, StartTime }

FirehosePosts(uris) ==
  { [ Record(u) EXCEPT !.timestamp = ts ] : u \in uris, ts \in PostTimes }

(***************************************************************************)
(* The live path: handler.rs.                                              *)
(***************************************************************************)
extract_media_info(post) ==
  LET e == post.embed
      m == IF e.tag = "QuoteWithMedia" THEN e.media ELSE e
  IN  CASE m.tag = "Images" ->
             [ MediaInfo_default EXCEPT
                 !.image_count = Min(Len(m.alt_texts), U8_MAX),
                 !.has_alt_text = \E i \in DOMAIN m.alt_texts : m.alt_texts[i] # << >> ]
        [] m.tag = "Video" -> [ MediaInfo_default EXCEPT !.has_video = TRUE ]
        [] m.tag = "External" -> [ MediaInfo_default EXCEPT !.external_uri = m.uri ]
        [] OTHER -> MediaInfo_default

(***************************************************************************)
(* The engagement tracker: engagement.rs.                                  *)
(***************************************************************************)
\* spam.repost_threshold, reposts per hour, scaled to the size of the model's world
repost_threshold == 2

velocity_window_hours == 1

\* engagement.weights, in thousandths
weights_reply == 3000

weights_repost == 2000

weights_like == 1000

\* the replies table: nothing in the program writes it
replies == {}

NewRepost(post_uri, repost_uri, reposter_did, timestamp) ==
  [ post_uri |-> post_uri, repost_uri |-> repost_uri, reposter_did |-> reposter_did,
    timestamp |-> timestamp ]

NewSpammer(did, reason, repost_frequency, flagged_at, auto_detected) ==
  [ did |-> did, reason |-> reason, repost_frequency |-> repost_frequency,
    flagged_at |-> flagged_at, auto_detected |-> auto_detected ]

\* timestamp.gt(window_start), window_start = now - velocity_window_hours * 3600
\* (both sides in hours: a time unit is DECAY_EVERY_X_HOURS hours)
in_window(timestamp, now_time) ==
  timestamp * DECAY_EVERY_X_HOURS > now_time * DECAY_EVERY_X_HOURS - velocity_window_hours

\* format!("high repost frequency: {:.1}/hr", frequency): the frequency in tenths
spam_reason(frequency) == << "high repost frequency: ", (frequency + 50) \div 100, "/hr" >>

\* check_repost_spam that lets the frequency reach the threshold
check_repost_spam_above(repost_tbl, reposter_did, now_time) ==
  LET recent_count == Cardinality({ r \in repost_tbl :
                                      /\ r.reposter_did = reposter_did
                                      /\ in_window(r.timestamp, now_time) })
      frequency == (recent_count * 1000) \div velocity_window_hours
  IN  IF frequency > repost_threshold * 1000
      THEN << [ did |-> reposter_did, reason |-> spam_reason(frequency),
                frequency |-> << frequency >> ] >>
      ELSE << >>

\* Some(SpamDetected) or None; the frequency is in thousandths of a repost per hour
check_repost_spam(repost_tbl, reposter_did, now_time) ==
  LET recent_count == Cardinality({ r \in repost_tbl :
                                      /\ r.reposter_did = reposter_did
                                      /\ in_window(r.timestamp, now_time) })
      frequency == (recent_count * 1000) \div velocity_window_hours
  IN  IF frequency >= repost_threshold * 1000
      THEN << [ did |-> reposter_did, reason |-> spam_reason(frequency),
                frequency |-> << frequency >> ] >>
      ELSE << >>

\* the upsert of the counters of one post
update_engagement_cache(cache_tbl, repost_tbl, like_tbl, post_uri, now_time) ==
  LET reply_count == Cardinality({ r \in replies : r.post_uri = post_uri })
      recent_replies == Cardinality({ r \in replies :
                                        r.post_uri = post_uri /\ in_window(r.timestamp, now_time) })
      repost_count == Cardinality({ r \in repost_tbl : r.post_uri = post_uri })
      recent_reposts == Cardinality({ r \in repost_tbl :
                                        r.post_uri = post_uri /\ in_window(r.timestamp, now_time) })
      like_count == Cardinality({ l \in like_tbl : l.post_uri = post_uri })
      velocity == recent_replies * weights_reply + recent_reposts * weights_repost
                  + (like_count * weights_like) \div 10
      entry == [ post_uri |-> post_uri, reply_count |-> reply_count,
                 repost_count |-> repost_count, like_count |-> like_count,
                 velocity_score |-> velocity, last_updated |-> now_time ]
  IN  { e \in cache_tbl : e.post_uri # post_uri } \cup { entry }

\* insert_or_ignore_into(reposts): (post_uri, repost_uri) is the primary key
insert_repost(repost_tbl, new_repost) ==
  IF \E r \in repost_tbl : r.post_uri = new_repost.post_uri /\ r.repost_uri = new_repost.repost_uri
  THEN repost_tbl
  ELSE repost_tbl \cup { new_repost }

is_spammer(spammer_tbl, did) == Cardinality({ s \in spammer_tbl : s.did = did }) > 0

\* insert_or_ignore_into(spammers): did is the primary key
flag_spammer_internal(spammer_tbl, did, reason, frequency, now_time) ==
  IF \E s \in spammer_tbl : s.did = did THEN spammer_tbl
  ELSE spammer_tbl \cup { NewSpammer(did, reason, frequency, now_time,
                                      IF frequency # << >> THEN 1 ELSE 0) }

\* the rows of either table older than the cutoff go
cleanup_old_engagement(repost_tbl, cutoff_timestamp) ==
  { r \in repost_tbl : ~(r.timestamp < cutoff_timestamp) }

\* the dids for which the closure |did| self.is_spammer(did) answers true
spammer_check(spammer_tbl) == { did \in DIDS : is_spammer(spammer_tbl, did) }

Outcome(result, requests, new_posts) ==
  [ result |-> result, ml_requests |-> requests, new_posts |-> new_posts ]

\* PrioritySignals built from the ML answer and the content signals
signals_of(ml_scores, content) ==
  [ PrioritySignals_default EXCEPT
      !.topic_label = ml_scores.best_label,
      !.label_boost = label_boost(ml_scores.best_label),
      !.engagement_bait_score = ml_scores.engagement_bait_score,
      !.synthetic_score = ml_scores.synthetic_score,
      !.authenticity_score = ml_scores.authenticity_score,
      !.is_first_person = content.is_first_person,
      !.images = content.images,
      !.has_video = content.has_video,
      !.has_alt_text = content.has_alt_text,
      !.link_count = content.link_count,
      !.promo_link_count = content.promo_link_count ]

\* insert_post that asks the ML worker before it consults the filter chain
process_post_ml_first(post, ml_scores, flagged) ==
  LET text == post.text
      lang == IF post.langs = << >> THEN None ELSE post.langs[1]
      filter_result == apply_filters(text, lang, post.author_did, MediaInfo_default,
                                     flagged, {})
  IN  IF post.reply THEN Outcome("reply", 0, << >>)
      ELSE IF IsReject(filter_result) THEN Outcome(filter_result.filter, 1, << >>)
      ELSE Outcome("no_relevance", 1, << >>)

\* process_post that takes a reply for a root post
process_post_replies_too(post, ml_scores, flagged) ==
  LET text == post.text
      lang == IF post.langs = << >> THEN None ELSE post.langs[1]
      filter_result == apply_filters(text, lang, post.author_did, MediaInfo_default,
                                     flagged, {})
      found_keywords == has_keywords(text)
      found_hashtags == has_hashtags(text)
      ml_filter_result == apply_ml_filter(ml_scores.best_label, ml_scores.best_label_score,
                                          ml_scores.is_negative_label)
      media_info == extract_media_info(post)
      content == extract_content_signals(text, media_info)
      score == calculate_score(ml_scores.classification_score, ml_scores.semantic_score)
      priority == calculate_priority(score, signals_of(ml_scores, content))
  IN  IF IsReject(filter_result) THEN Outcome(filter_result.filter, 0, << >>)
      ELSE IF ~found_keywords /\ ~found_hashtags THEN Outcome("no_relevance", 0, << >>)
      ELSE IF IsReject(ml_filter_result) THEN Outcome("ml_rejected", 1, << >>)
      ELSE IF ~passes_threshold(score) THEN Outcome("below_threshold", 1, << >>)
      ELSE Outcome("accepted", 1,
                   << NewPost(post.uri, post.timestamp, priority.final_priority,
                              post.author_did) >>)

\* insert_post up to its push: the verdict on one post, the number of requests it
\* sent to the ML worker, and the records it appends to pending_posts.
\* handler.rs:185 hands apply_filters the spammer predicate alone (flagged: the
\* dids it answers true for): no media and no blocked-author predicate reach the
\* filter chain on this path.
process_post(post, ml_scores, flagged) ==
  LET text == post.text
      lang == IF post.langs = << >> THEN None ELSE post.langs[1]
      filter_result == apply_filters(text, lang, post.author_did, MediaInfo_default,
                                     flagged, {})
      found_keywords == has_keywords(text)
      found_hashtags == has_hashtags(text)
      ml_filter_result == apply_ml_filter(ml_scores.best_label, ml_scores.best_label_score,
                                          ml_scores.is_negative_label)
      media_info == extract_media_info(post)
      content == extract_content_signals(text, media_info)
      score == calculate_score(ml_scores.classification_score, ml_scores.semantic_score)
      priority == calculate_priority(score, signals_of(ml_scores, content))
  IN  IF post.reply THEN Outcome("reply", 0, << >>)
      ELSE IF IsReject(filter_result) THEN Outcome(filter_result.filter, 0, << >>)
      ELSE IF ~found_keywords /\ ~found_hashtags THEN Outcome("no_relevance", 0, << >>)
      ELSE IF IsReject(ml_filter_result) THEN Outcome("ml_rejected", 1, << >>)
      ELSE IF ~passes_threshold(score) THEN Outcome("below_threshold", 1, << >>)
      ELSE Outcome("accepted", 1,
                   << NewPost(post.uri, post.timestamp, priority.final_priority,
                              post.author_did) >>)

\* what the spammer predicate can answer in the model: nobody flagged, or did:a2
SpammerTables == { {}, { "did:a2" } }

\* the row flag_spammer left in an earlier run
ReportedSpammer ==
  NewSpammer("did:a2", << "reported" >>, << >>, StartTime - 1, 0)

\* the spammers table as an earlier run left it
SpammerRegistries == { {}, { ReportedSpammer } }

\* every post the firehose or the search can deliver in the model
WorldPosts == FirehosePosts(URIS \cup DROPPED_URIS)

\* process_post, tabulated over the posts, ML answers and spammers tables of the model
process_post_table ==
  [ post \in WorldPosts, ml_scores \in MLAnswers, flagged \in SpammerTables |->
      process_post(post, ml_scores, flagged) ]

\* the FeedResult of a call that returns none
NoFeed ==
  [ served |-> FALSE, request |-> [ user_did |-> None, cursor |-> << >>, limit |-> << >> ],
    scored_posts |-> << >>, page_posts |-> << >>, feed |-> << >>, cursor |-> << >> ]

TotalPending ==
  Len(pending_posts) + Len(pending_likes) + Len(pending_deletes) + Len(pending_like_deletes)

\* a call, its outcome, the number of rows it handed to the store and, for a
\* call of the engagement tracker or of the moderator, the did it was about
Call(op, result) == [ op |-> op, result |-> result, rows |-> 0, who |-> None ]

\* insert_post that writes an accepted post to the store at once
insert_post_writing_store(post, ml_scores) ==
  LET out == process_post_table[post, ml_scores, spammer_check(spammers)]
  IN  /\ phase = "serving"
      /\ TotalPending < MaxPending
      /\ pending_posts' = pending_posts \o out.new_posts
      /\ posts' = insert_posts(posts, out.new_posts)
      /\ ml_sent' = out.ml_requests
      /\ feed_result' = NoFeed
      /\ last_call' = Call("insert_post", out.result)
      /\ UNCHANGED << worker_vars, flush_task, pure_call, likes, user_interactions, spammers, pending_likes,
                      pending_deletes, pending_like_deletes, now, phase,
                      reposts, blocked_authors, engagement_cache >>

insert_post(post, ml_scores) ==
  LET out == process_post_table[post, ml_scores, spammer_check(spammers)]
  IN  /\ phase = "serving"
      /\ TotalPending < MaxPending
      /\ pending_posts' = pending_posts \o out.new_posts
      /\ ml_sent' = out.ml_requests
      /\ feed_result' = NoFeed
      /\ last_call' = Call("insert_post", out.result)
      /\ UNCHANGED << worker_vars, flush_task, pure_call, posts, likes, user_interactions, spammers, pending_likes,
                      pending_deletes, pending_like_deletes, now, phase,
                      reposts, blocked_authors, engagement_cache >>

delete_post(uri) ==
  /\ phase = "serving"
  /\ TotalPending < MaxPending
  /\ pending_deletes' = Append(pending_deletes, uri)
  /\ ml_sent' = 0
  /\ feed_result' = NoFeed
  /\ last_call' = Call("delete_post", "queued")
  /\ UNCHANGED << worker_vars, flush_task, pure_call, posts, likes, user_interactions, spammers, pending_posts, pending_likes,
                  pending_like_deletes, now, phase,
                  reposts, blocked_authors, engagement_cache >>

\* record_like recomputes the counters of the liked post from the tables, then
\* the like is queued
insert_like(like_uri, liked_post_uri) ==
  /\ phase = "serving"
  /\ TotalPending < MaxPending
  /\ engagement_cache' = update_engagement_cache(engagement_cache, reposts, likes,
                                                  liked_post_uri, now)
  /\ pending_likes' = Append(pending_likes, NewLike(liked_post_uri, like_uri))
  /\ ml_sent' = 0
  /\ feed_result' = NoFeed
  /\ last_call' = Call("insert_like", "queued")
  /\ UNCHANGED << worker_vars, flush_task, pure_call, posts, likes, user_interactions, spammers, pending_posts,
                  pending_deletes, pending_like_deletes, now, phase,
                  reposts, blocked_authors >>

delete_like(like_uri) ==
  /\ phase = "serving"
  /\ TotalPending < MaxPending
  /\ pending_like_deletes' = Append(pending_like_deletes, like_uri)
  /\ ml_sent' = 0
  /\ feed_result' = NoFeed
  /\ last_call' = Call("delete_like", "queued")
  /\ UNCHANGED << worker_vars, flush_task, pure_call, posts, likes, user_interactions, spammers, pending_posts, pending_likes,
                  pending_deletes, now, phase,
                  reposts, blocked_authors, engagement_cache >>

RECURSIVE DeletePostsFrom(_, _, _)
DeletePostsFrom(tbl, uris, i) ==
  IF i > Len(uris) THEN tbl ELSE DeletePostsFrom(db_delete_post(tbl, uris[i]), uris, i + 1)

RECURSIVE DeleteLikesFrom(_, _, _)
DeleteLikesFrom(tbl, uris, i) ==
  IF i > Len(uris) THEN tbl ELSE DeleteLikesFrom(db_delete_like(tbl, uris[i]), uris, i + 1)

\* the posts table after the post deletes of a flush
posts_after_deletes(tbl, deletes) == DeletePostsFrom(tbl, deletes, 1)

\* a flush that applies the post deletes and leaves the pending posts out
flushed_posts_deletes_only(tbl, deletes, posts_to_insert) ==
  posts_after_deletes(tbl, deletes)

\* the posts table after a flush of the given queues
flushed_posts(tbl, deletes, posts_to_insert) ==
  LET after_deletes == posts_after_deletes(tbl, deletes)
  IN  IF posts_to_insert # << >> THEN insert_posts(after_deletes, posts_to_insert)
      ELSE after_deletes

\* pending_likes.drain(..).filter(|like| !deletes.contains(&like.post_uri))
likes_to_insert(queued_likes, deletes) ==
  SelectSeq(queued_likes, LAMBDA like : like.post_uri \notin Range(deletes))

\* a flush that inserts the pending likes before it applies the like deletes
flushed_likes_inserting_first(post_tbl, like_tbl, deletes, like_deletes, queued_posts, queued_likes, conn) ==
  LET post_tbl_after == flushed_posts(post_tbl, deletes, queued_posts)
      after_cascade == on_delete_cascade(like_tbl, post_tbl,
                                         posts_after_deletes(post_tbl, deletes), conn)
      to_insert == likes_to_insert(queued_likes, deletes)
      after_inserts == IF to_insert # << >>
                       THEN insert_likes(post_tbl_after, after_cascade, to_insert)
                       ELSE after_cascade
  IN  DeleteLikesFrom(after_inserts, like_deletes, 1)

\* the likes table after a flush of the given queues on the connection conn:
\* the post deletes (and what the engine cascades), the like deletes, then,
\* once the pending posts are in, the pending likes
flushed_likes(post_tbl, like_tbl, deletes, like_deletes, queued_posts, queued_likes, conn) ==
  LET post_tbl_after == flushed_posts(post_tbl, deletes, queued_posts)
      after_cascade == on_delete_cascade(like_tbl, post_tbl,
                                         posts_after_deletes(post_tbl, deletes), conn)
      after_deletes == DeleteLikesFrom(after_cascade, like_deletes, 1)
      to_insert == likes_to_insert(queued_likes, deletes)
  IN  IF to_insert # << >> THEN insert_likes(post_tbl_after, after_deletes, to_insert)
      ELSE after_deletes

\* log_flush(post_count, like_count): the rows the flush handed to the two inserts
flush_rows(queued_posts, queued_likes, deletes) ==
  Len(queued_posts) + Len(likes_to_insert(queued_likes, deletes))

\* the storage operations of flush_pending that can fail
FlushFailures == { "pool.get", "delete_post", "delete_like", "insert_posts", "insert_likes" }

\* the failure can happen in this call: the at-th delete_post or delete_like,
\* insert_posts or insert_likes when flush_pending calls them
can_fail(failed, at) ==
  CASE failed = None -> at = 0
    [] failed = "pool.get" -> at = 0
    [] failed = "delete_post" -> at \in 1..Len(pending_deletes)
    [] failed = "delete_like" -> at \in 1..Len(pending_like_deletes)
    [] failed = "insert_posts" -> at = 0 /\ pending_posts # << >>
    [] failed = "insert_likes" ->
         at = 0 /\ likes_to_insert(pending_likes, pending_deletes) # << >>

\* flush_pending, called by the flush loop of main(), in which the storage
\* operation failed fails (None: no operation fails); at is the index of the
\* failing delete. pool.get() is expect()ed: its failure panics, which ends the
\* flush loop. Any other error is returned with `?` to the loop, which logs it.
flush_pending_with(failed, at) ==
  /\ phase = "serving"
  /\ flush_task = "running"
  /\ pure_call = NoCall
  /\ IF TotalPending = 0
     THEN /\ failed = None
          /\ at = 0
          /\ last_call' = Call("flush_pending", "nothing")
          /\ UNCHANGED << posts, likes, pending_posts, pending_likes, pending_deletes,
                          pending_like_deletes, flush_task >>
     ELSE /\ can_fail(failed, at)
          /\ IF failed = "pool.get"
             THEN /\ flush_task' = "panicked"
                  /\ last_call' = [ Call("flush_pending", "panicked") EXCEPT !.who = failed ]
                  /\ UNCHANGED << posts, likes, pending_posts, pending_likes,
                                  pending_deletes, pending_like_deletes >>
             ELSE LET deletes == IF failed = "delete_post"
                                 THEN SubSeq(pending_deletes, 1, at - 1)
                                 ELSE pending_deletes
                      like_deletes == CASE failed = "delete_post" -> << >>
                                        [] failed = "delete_like" ->
                                             SubSeq(pending_like_deletes, 1, at - 1)
                                        [] OTHER -> pending_like_deletes
                      drained == failed \notin { "delete_post", "delete_like" }
                      posts_to_insert == IF failed \in { None, "insert_likes" }
                                         THEN pending_posts ELSE << >>
                      inserted_likes == IF failed = None THEN pending_likes ELSE << >>
                  IN  /\ posts' = flushed_posts(posts, deletes, posts_to_insert)
                      /\ \E conn \in pool_get :
                           likes' = flushed_likes(posts, likes, deletes, like_deletes,
                                                  posts_to_insert, inserted_likes, conn)
                      /\ pending_posts' = IF drained THEN << >> ELSE pending_posts
                      /\ pending_likes' = IF drained THEN << >> ELSE pending_likes
                      /\ pending_deletes' = << >>
                      /\ pending_like_deletes' = << >>
                      /\ last_call' =
                           IF failed = None
                           THEN [ Call("flush_pending", "flushed") EXCEPT
                                    !.rows = flush_rows(pending_posts, pending_likes,
                                                        pending_deletes) ]
                           ELSE [ Call("flush_pending", "error") EXCEPT !.who = failed ]
                      /\ UNCHANGED flush_task
  /\ ml_sent' = 0
  /\ feed_result' = NoFeed
  /\ UNCHANGED << worker_vars, pure_call, user_interactions, spammers, now, phase,
                  reposts, blocked_authors, engagement_cache >>

\* flush_pending when the store answers every operation
flush_pending == flush_pending_with(None, 0)

\* cleanup_old_engagement on a connection of its own, then db::cleanup_old_posts
\* on the connection conn
cleanup_old_posts ==
  /\ phase = "serving"
  /\ reposts' = cleanup_old_engagement(reposts, now - FEED_CUTOFF)
  /\ posts' \in db_cleanup_old_posts(posts, now - FEED_CUTOFF, MAX_STORED_POSTS)
  /\ \E conn \in pool_get : likes' = on_delete_cascade(likes, posts, posts', conn)
  /\ ml_sent' = 0
  /\ feed_result' = NoFeed
  /\ last_call' = Call("cleanup_old_posts",
                       IF Cardinality({ r \in posts : r.timestamp >= now - FEED_CUTOFF })
                            > MAX_STORED_POSTS
                       THEN "capped" ELSE "within_cap")
  /\ UNCHANGED << worker_vars, flush_task, pure_call, user_interactions, spammers, pending_posts, pending_likes,
                  pending_deletes, pending_like_deletes, now, phase,
                  blocked_authors, engagement_cache >>

\* the clock advances
Tick ==
  /\ now < StartTime + MaxTicks
  /\ now' = now + 1
  /\ UNCHANGED << worker_vars, flush_task, pure_call, posts, likes, user_interactions, spammers, pending_posts, pending_likes,
                  pending_deletes, pending_like_deletes, phase, ml_sent, last_call,
                  feed_result,
                  reposts, blocked_authors, engagement_cache >>

(***************************************************************************)
(* The ML worker and its handle: scoring/classification.rs.                *)
(***************************************************************************)
\* ML_BATCH_SIZE, scaled to the size of the model's world
ML_BATCH_SIZE == 2

\* the MLHandle::score calls of the model
MaxRequests == 3

RequestIds == 1..MaxRequests

\* the texts the callers ask about
WorkerTexts == { TEXT_DEVLOG, TEXT_WEATHER }

\* what the models make of each text (external collaborators)
classify(text) ==
  IF text = TEXT_DEVLOG
  THEN CHOOSE o \in ModelOutputs : o.best_label = LABEL_SHARING
  ELSE CHOOSE o \in ModelOutputs : o.best_label = LABEL_UNRELATED /\ o.best_label_score = 900

\* classify_topic_batch, assess_quality_batch and semantic_similarity_batch over
\* the texts of the batch: one result for each text, the defaults when the
\* prediction fails
predict_batch(texts, predicted) ==
  [ i \in DOMAIN texts |-> IF predicted THEN classify(texts[i]) ELSE MLScores_default ]

\* a score call that has not been made: no oneshot channel yet
IdleCaller ==
  [ state |-> "idle", text |-> << >>, reply |-> << >>, closed |-> FALSE,
    result |-> << >>, answers |-> 0 ]

\* the worker has loaded its models and waits in recv(); nobody has called score
WorkerReady ==
  /\ request_rx = << >>
  /\ batch = << >>
  /\ worker = "recv"
  /\ callers = [ id \in RequestIds |-> IdleCaller ]
  /\ handle_live = TRUE

\* the oneshot Senders in a sequence of requests are dropped: the receivers that
\* hold no value resolve to an error
drop_requests(calls, requests) ==
  [ id \in RequestIds |->
      IF \E i \in DOMAIN requests : requests[i].id = id
      THEN [ calls[id] EXCEPT !.closed = TRUE ]
      ELSE calls[id] ]

\* MLHandle::score up to the await: the send fails when the worker has dropped
\* the Receiver, and the call returns the default scores
MLHandle_score(id, text) ==
  /\ handle_live
  /\ callers[id].state = "idle"
  /\ IF worker = "terminated"
     THEN /\ callers' = [ callers EXCEPT ![id].state = "returned", ![id].text = text,
                                         ![id].result = << MLScores_default >> ]
          /\ request_rx' = request_rx
     ELSE /\ callers' = [ callers EXCEPT ![id].state = "waiting", ![id].text = text ]
          /\ request_rx' = Append(request_rx, [ id |-> id, text |-> text ])
  /\ UNCHANGED << batch, worker, handle_live >>
  /\ UNCHANGED handler_vars

\* response_rx.await.unwrap_or_default() resolves: the value, or the defaults
\* when the Sender was dropped without a send
MLHandle_score_returns(id) ==
  /\ callers[id].state = "waiting"
  /\ callers[id].reply # << >> \/ callers[id].closed
  /\ callers' = [ callers EXCEPT
                    ![id].state = "returned",
                    ![id].result = IF callers[id].reply # << >> THEN callers[id].reply
                                   ELSE << MLScores_default >> ]
  /\ UNCHANGED << request_rx, batch, worker, handle_live >>
  /\ UNCHANGED handler_vars

\* the task that awaits the score is dropped: its oneshot Receiver goes
MLHandle_score_dropped(id) ==
  /\ callers[id].state = "waiting"
  /\ callers' = [ callers EXCEPT ![id].state = "dropped" ]
  /\ UNCHANGED << request_rx, batch, worker, handle_live >>
  /\ UNCHANGED handler_vars

\* the last MLHandle is dropped: the request channel is disconnected
handles_dropped ==
  /\ handle_live
  /\ handle_live' = FALSE
  /\ UNCHANGED << request_rx, batch, worker, callers >>
  /\ UNCHANGED handler_vars

\* run_ml_worker before the loop: the models load, or a load fails and the
\* function returns the error, dropping the Receiver and what is queued in it
worker_loads(loaded) ==
  /\ worker = "loading"
  /\ IF loaded
     THEN /\ worker' = "recv"
          /\ UNCHANGED << request_rx, callers >>
     ELSE /\ worker' = "terminated"
          /\ request_rx' = << >>
          /\ callers' = drop_requests(callers, request_rx)
  /\ UNCHANGED << batch, handle_live >>
  /\ UNCHANGED handler_vars

\* request_rx.recv(): blocks while the channel is empty and connected; an empty
\* disconnected channel ends the loop and the thread
worker_recv ==
  /\ worker = "recv"
  /\ IF request_rx # << >>
     THEN /\ batch' = << Head(request_rx) >>
          /\ request_rx' = Tail(request_rx)
          /\ worker' = "fill"
     ELSE /\ ~handle_live
          /\ worker' = "terminated"
          /\ UNCHANGED << batch, request_rx >>
  /\ UNCHANGED << callers, handle_live >>
  /\ UNCHANGED handler_vars

\* the fill loop without its bound on the batch
worker_fill_unbounded ==
  /\ worker = "fill"
  /\ IF request_rx # << >>
     THEN /\ batch' = Append(batch, Head(request_rx))
          /\ request_rx' = Tail(request_rx)
          /\ worker' = worker
     ELSE /\ worker' = "process"
          /\ UNCHANGED << batch, request_rx >>
  /\ UNCHANGED << callers, handle_live >>
  /\ UNCHANGED handler_vars

\* while batch.len() < ML_BATCH_SIZE: recv_timeout(batch_timeout) adds a request
\* that is there; the loop ends on a full batch, on Timeout and on Disconnected
worker_fill ==
  /\ worker = "fill"
  /\ IF Len(batch) < ML_BATCH_SIZE /\ request_rx # << >>
     THEN /\ batch' = Append(batch, Head(request_rx))
          /\ request_rx' = Tail(request_rx)
          /\ worker' = worker
     ELSE /\ worker' = "process"
          /\ UNCHANGED << batch, request_rx >>
  /\ UNCHANGED << callers, handle_live >>
  /\ UNCHANGED handler_vars

\* the index of the request of the caller id in the batch
batch_index(requests, id) == CHOOSE i \in DOMAIN requests : requests[i].id = id

\* the send loop that answers every request with the first result
worker_process_first_for_all(predicted) ==
  LET texts == [ i \in DOMAIN batch |-> batch[i].text ]
      results == predict_batch(texts, predicted)
  IN  /\ worker = "process"
      /\ callers' =
           [ id \in RequestIds |->
               IF \E i \in DOMAIN batch : batch[i].id = id
               THEN [ callers[id] EXCEPT
                        !.answers = @ + 1,
                        !.reply = IF callers[id].state = "waiting"
                                  THEN << worker_answer(results[1]) >>
                                  ELSE @ ]
               ELSE callers[id] ]
      /\ batch' = << >>
      /\ worker' = "recv"
      /\ UNCHANGED << request_rx, handle_live >>
      /\ UNCHANGED handler_vars

\* the batch is predicted and result i is sent on the oneshot Sender of request
\* i; a send to a dropped Receiver fails and is ignored
worker_process(predicted) ==
  LET texts == [ i \in DOMAIN batch |-> batch[i].text ]
      results == predict_batch(texts, predicted)
  IN  /\ worker = "process"
      /\ callers' =
           [ id \in RequestIds |->
               IF \E i \in DOMAIN batch : batch[i].id = id
               THEN [ callers[id] EXCEPT
                        !.answers = @ + 1,
                        !.reply = IF callers[id].state = "waiting"
                                  THEN << worker_answer(results[batch_index(batch, id)]) >>
                                  ELSE @ ]
               ELSE callers[id] ]
      /\ batch' = << >>
      /\ worker' = "recv"
      /\ UNCHANGED << request_rx, handle_live >>
      /\ UNCHANGED handler_vars

\* a panic that leaves the queued requests and the batch where they are
worker_panics_keeping_queue ==
  /\ worker = "process"
  /\ worker' = "terminated"
  /\ UNCHANGED << request_rx, batch, callers, handle_live >>
  /\ UNCHANGED handler_vars

\* a panic while the batch is predicted unwinds the thread: the batch and the
\* Receiver are dropped, and with them every oneshot Sender they hold
worker_panics ==
  /\ worker = "process"
  /\ worker' = "terminated"
  /\ batch' = << >>
  /\ request_rx' = << >>
  /\ callers' = drop_requests(callers, batch \o request_rx)
  /\ handle_live' = handle_live
  /\ UNCHANGED handler_vars

(***************************************************************************)
(* The startup backfill: backfill.rs.                                      *)
(***************************************************************************)
\* extract_media_from_embed: the view of an embed the search API returns
extract_media_from_embed(embed) ==
  CASE embed.tag = "Video" -> [ MediaInfo_default EXCEPT !.has_video = TRUE ]
    [] embed.tag = "Images" ->
         [ MediaInfo_default EXCEPT
             !.image_count = Min(Len(embed.alt_texts), U8_MAX),
             !.has_alt_text = \E i \in DOMAIN embed.alt_texts : embed.alt_texts[i] # << >> ]
    [] embed.tag = "External" -> [ MediaInfo_default EXCEPT !.external_uri = embed.uri ]
    [] OTHER -> MediaInfo_default

\* the body of the loop over the search results from the filters on: the rows the
\* post adds (none or one); `timestamp` of the post is its indexed_at.
\* The spammer predicate of this path is `|_| false`.
assess_search_post(post, ml_scores) ==
  LET text == post.text
      lang == IF post.langs = << >> THEN None ELSE post.langs[1]
      filter_result == apply_filters(text, lang, post.author_did, MediaInfo_default, {}, {})
      ml_filter_result == apply_ml_filter(ml_scores.best_label, ml_scores.best_label_score,
                                          ml_scores.is_negative_label)
      content == extract_content_signals(text, extract_media_from_embed(post.embed))
      score == calculate_score(ml_scores.classification_score, ml_scores.semantic_score)
      priority == calculate_priority(score, signals_of(ml_scores, content))
  IN  IF IsReject(filter_result) THEN << >>
      ELSE IF ~has_keywords(text) /\ ~has_hashtags(text) THEN << >>
      ELSE IF IsReject(ml_filter_result) THEN << >>
      ELSE IF ~passes_threshold(score) THEN << >>
      ELSE << NewPost(post.uri, post.timestamp, priority.final_priority, post.author_did) >>

\* assess_search_post, tabulated over the posts and ML answers of the model
assess_search_post_table ==
  [ post \in WorldPosts, ml_scores \in MLAnswers |-> assess_search_post(post, ml_scores) ]

\* one iteration of the loop over the search results
backfill_step(tbl, new_posts, post, ml_scores) ==
  IF post_exists(tbl, post.uri) THEN new_posts
  ELSE IF post.reply THEN new_posts
  ELSE new_posts \o assess_search_post_table[post, ml_scores]

\* for post in all_posts.iter().take(BACKFILL_LIMIT) { ... break at the limit }
RECURSIVE BackfillFrom(_, _, _, _, _)
BackfillFrom(tbl, all_posts, ml_scores, i, new_posts) ==
  IF i > Min(Len(all_posts), BACKFILL_LIMIT) \/ Len(new_posts) >= BACKFILL_LIMIT
  THEN new_posts
  ELSE BackfillFrom(tbl, all_posts, ml_scores, i + 1,
                    backfill_step(tbl, new_posts, all_posts[i], ml_scores[i]))

\* the rows run_backfill hands to insert_posts
backfill_rows(tbl, all_posts, ml_scores) == BackfillFrom(tbl, all_posts, ml_scores, 1, << >>)

\* the answers of the ML worker in the storage specification
StorageAnswers == { a \in MLAnswers : a.best_label = LABEL_SHARING }

\* the concatenated search results: the four queries may return the same post
SearchResults ==
  UNION { [ 1..n -> FirehosePosts(URIS) ] : n \in 1..(BACKFILL_LIMIT + 1) }

run_backfill(all_posts, ml_scores) ==
  LET new_posts == backfill_rows(posts, all_posts, ml_scores)
  IN  /\ phase = "backfill"
      /\ posts' = IF new_posts # << >> THEN insert_posts(posts, new_posts) ELSE posts
      /\ phase' = "serving"
      /\ ml_sent' = 0
      /\ feed_result' = NoFeed
      /\ last_call' = [ Call("run_backfill", "done") EXCEPT !.rows = Len(new_posts) ]
      /\ UNCHANGED << worker_vars, flush_task, pure_call, likes, user_interactions, spammers, pending_posts, pending_likes,
                      pending_deletes, pending_like_deletes, now,
                      reposts, blocked_authors, engagement_cache >>

\* create_session fails, or every search comes back empty: run_backfill returns
backfill_skipped ==
  /\ phase = "backfill"
  /\ phase' = "serving"
  /\ ml_sent' = 0
  /\ feed_result' = NoFeed
  /\ last_call' = Call("run_backfill", "skipped")
  /\ UNCHANGED << worker_vars, flush_task, pure_call, posts, likes, user_interactions, spammers, pending_posts, pending_likes,
                  pending_deletes, pending_like_deletes, now,
                  reposts, blocked_authors, engagement_cache >>

(***************************************************************************)
(* The storage specification: firehose events, the two timers and the      *)
(* backfill, over the records the pipeline can accept.                     *)
(***************************************************************************)
\* a row an earlier run left in the database file
PersistedRow == NewPost("at://a1/1", StartTime - 1, 1000, "did:a1")

InitCommon ==
  /\ likes = {}
  /\ user_interactions = {}
  /\ spammers = {}
  /\ reposts = {}
  /\ blocked_authors = {}
  /\ engagement_cache = {}
  /\ WorkerReady
  /\ flush_task = "running"
  /\ pure_call = NoCall
  /\ pending_posts = << >>
  /\ pending_likes = << >>
  /\ pending_deletes = << >>
  /\ pending_like_deletes = << >>
  /\ now = StartTime
  /\ ml_sent = 0
  /\ last_call = Call("new", None)
  /\ feed_result = NoFeed

Init ==
  /\ InitCommon
  /\ posts = { PersistedRow }
  /\ phase = "backfill"

Backfill ==
  \/ \E all_posts \in SearchResults :
       run_backfill(all_posts, [ i \in DOMAIN all_posts |->
                                   CHOOSE a \in MLAnswers : a.best_label = LABEL_SHARING ])
  \/ backfill_skipped

InsertPost ==
  \E post \in FirehosePosts(URIS), ml_scores \in StorageAnswers :
    insert_post(post, ml_scores)

DeletePost == \E uri \in URIS : delete_post(uri)

InsertLike == \E like_uri \in LIKE_URIS, uri \in LIKED_URIS : insert_like(like_uri, uri)

DeleteLike == \E like_uri \in LIKE_URIS : delete_like(like_uri)

Next ==
  \/ Backfill
  \/ InsertPost
  \/ DeletePost
  \/ InsertLike
  \/ DeleteLike
  \/ flush_pending
  \/ cleanup_old_posts
  \/ Tick

Spec == Init /\ [][Next]_vars

(***************************************************************************)
(* The worker specification: the score calls, the worker thread from its   *)
(* start to its end, and the handles.                                      *)
(***************************************************************************)
\* MLHandle::spawn has just returned: the thread is loading its models
InitWorker ==
  /\ posts = {}
  /\ likes = {}
  /\ user_interactions = {}
  /\ spammers = {}
  /\ reposts = {}
  /\ blocked_authors = {}
  /\ engagement_cache = {}
  /\ pending_posts = << >>
  /\ pending_likes = << >>
  /\ pending_deletes = << >>
  /\ pending_like_deletes = << >>
  /\ now = StartTime
  /\ phase = "backfill"
  /\ ml_sent = 0
  /\ last_call = Call("new", None)
  /\ feed_result = NoFeed
  /\ flush_task = "running"
  /\ pure_call = NoCall
  /\ request_rx = << >>
  /\ batch = << >>
  /\ worker = "loading"
  /\ callers = [ id \in RequestIds |-> IdleCaller ]
  /\ handle_live = TRUE

NextWorker ==
  \/ \E id \in RequestIds, text \in WorkerTexts : MLHandle_score(id, text)
  \/ \E id \in RequestIds : MLHandle_score_returns(id)
  \/ \E id \in RequestIds : MLHandle_score_dropped(id)
  \/ handles_dropped
  \/ \E loaded \in BOOLEAN : worker_loads(loaded)
  \/ worker_recv
  \/ worker_fill
  \/ \E predicted \in BOOLEAN : worker_process(predicted)
  \/ worker_panics

SpecWorker == InitWorker /\ [][NextWorker]_vars

\* the worker thread is scheduled and the tasks that await a score are polled
FairSpecWorker ==
  /\ SpecWorker
  /\ WF_vars(worker_recv)
  /\ WF_vars(worker_fill)
  /\ WF_vars(\E predicted \in BOOLEAN : worker_process(predicted) \/ worker_panics)
  /\ WF_vars(\E loaded \in BOOLEAN : worker_loads(loaded))
  /\ \A id \in RequestIds : WF_vars(MLHandle_score_returns(id))

(***************************************************************************)
(* Properties of the storage specification.                                *)
(***************************************************************************)
PendingPostUris == { pending_posts[i].uri : i \in DOMAIN pending_posts }

\* the step is a flush that found something to flush
FlushStep == last_call'.op = "flush_pending" /\ TotalPending > 0

\* C1: when a flush runs with a uri both in pending_deletes and on a post of
\* pending_posts, the store holds no post of that uri once the flush is over
\* (the delete wins over the insert of the same window).
C1_DeleteWinsOverInsert ==
  [][ FlushStep =>
        \A u \in Range(pending_deletes) \cap PendingPostUris : u \notin Uris(posts') ]_vars

\* C3: a step that changes the posts table or the likes table is a step of
\* flush_pending, cleanup_old_posts or the backfill; insert_post, delete_post,
\* insert_like and delete_like leave both tables as they were.
C3_OnlyFlushCleanupBackfillWrite ==
  [][ (posts' # posts \/ likes' # likes) =>
        last_call'.op \in { "flush_pending", "cleanup_old_posts", "run_backfill" } ]_vars

\* an accepted post sits in pending_posts and the store has no row of it
C3_Witness ==
  /\ last_call = Call("insert_post", "accepted")
  /\ pending_posts # << >>
  /\ pending_posts[Len(pending_posts)].uri \notin Uris(posts)

UniqueUris(tbl) == \A r1, r2 \in tbl : r1.uri = r2.uri => r1 = r2

\* C4: the posts table holds at most one row per uri, and a flush or a backfill
\* that inserts a uri already stored leaves the stored row as it was: every row
\* the step does not delete is still there, unchanged.
C4_OneRowPerUri ==
  [][ /\ UniqueUris(posts')
      /\ last_call'.op = "run_backfill" => posts \subseteq posts'
      /\ FlushStep =>
           \A r \in posts : r.uri \notin Range(pending_deletes) => r \in posts' ]_vars

\* the backfill handed two rows to insert_posts and one row was added: the
\* second row carried the uri of the first
C4_Witness ==
  /\ last_call = [ Call("run_backfill", "done") EXCEPT !.rows = 2 ]
  /\ Cardinality(posts) = 2
  /\ UniqueUris(posts)

\* C5: after every completed cleanup_old_posts the store holds at most
\* MAX_STORED_POSTS posts, whatever their number and timestamps were before.
C5_CleanupCaps ==
  last_call.op = "cleanup_old_posts" => Cardinality(posts) <= MAX_STORED_POSTS

\* a cleanup found more rows than the cap, all of one timestamp, and left the cap
C5_Witness ==
  /\ last_call = Call("cleanup_old_posts", "capped")
  /\ Cardinality(posts) = MAX_STORED_POSTS
  /\ \A r1, r2 \in posts : r1.timestamp = r2.timestamp

(***************************************************************************)
(* Likes and the order of a flush, under Spec.                             *)
(***************************************************************************)
\* the likes a flush hands to insert_likes
HandedLikes == Range(likes_to_insert(pending_likes, pending_deletes))

\* C11: a flush stores a like only if a post with its post_uri is in the store
\* once the pending posts of that flush are in; every other pending like is
\* dropped with the queue and none is kept for a later flush.
C11_LikeNeedsStoredPost ==
  [][ FlushStep =>
        /\ \A l \in likes' \ likes : l \in HandedLikes /\ l.post_uri \in Uris(posts')
        /\ pending_likes' = << >> ]_vars

\* a flush handed one like and no post to the store, the store holds no post and
\* the like is gone: not stored, not pending
C11_Witness ==
  /\ last_call.op = "flush_pending"
  /\ last_call.rows = 1
  /\ posts = {}
  /\ likes = {}
  /\ pending_likes = << >>

\* C12: every stored like references a stored post.
C12_LikesReferenceStoredPosts == \A l \in likes : l.post_uri \in Uris(posts)

\* C13: a flush applies the post deletes, then the like deletes, then the post
\* inserts, then the like inserts: a uri queued for insert is stored afterwards
\* although the same flush deleted it, a pending like of a stored post outside the
\* delete set is stored afterwards although the same flush deleted its like_uri,
\* a deleted like that was not pending is gone, and no like the flush adds has its
\* post_uri in the delete set.
C13_FlushOrder ==
  [][ FlushStep =>
        /\ \A i \in DOMAIN pending_posts : pending_posts[i].uri \in Uris(posts')
        /\ \A uri \in Range(pending_deletes) :
             uri \notin PendingPostUris => uri \notin Uris(posts')
        /\ \A l \in HandedLikes : l.post_uri \in Uris(posts') => l \in likes'
        /\ \A l \in likes' :
             l.like_uri \in Range(pending_like_deletes) => l \in HandedLikes
        /\ \A l \in likes' \ likes : l.post_uri \notin Range(pending_deletes) ]_vars

\* a flush handed a post and a like to the store: the post the earlier run left
\* was deleted, the firehose post of its uri is stored, and so is its like
C13_Witness ==
  /\ last_call.op = "flush_pending"
  /\ last_call.rows = 2
  /\ PersistedRow \notin posts
  /\ "at://a1/1" \in Uris(posts)
  /\ NewLike("at://a1/1", "like:1") \in likes
(***************************************************************************)
(* The pipeline specification: insert_post over every record of the world, *)
(* with either spammers table, and the flush that stores what it accepted. *)
(***************************************************************************)
\* the firehose posts of this specification: every record, with a current timestamp
PipelinePosts == { p \in WorldPosts : p.timestamp = StartTime }

\* the spammers table as an earlier run left it
InitPipeline ==
  /\ likes = {}
  /\ user_interactions = {}
  /\ spammers \in SpammerRegistries
  /\ reposts = {}
  /\ blocked_authors = {}
  /\ engagement_cache = {}
  /\ WorkerReady
  /\ flush_task = "running"
  /\ pure_call = NoCall
  /\ pending_posts = << >>
  /\ pending_likes = << >>
  /\ pending_deletes = << >>
  /\ pending_like_deletes = << >>
  /\ now = StartTime
  /\ ml_sent = 0
  /\ last_call = Call("new", None)
  /\ feed_result = NoFeed
  /\ posts = {}
  /\ phase = "serving"

InsertAnyPost ==
  \E post \in PipelinePosts, ml_scores \in MLAnswers : insert_post(post, ml_scores)

NextPipeline ==
  \/ InsertAnyPost
  \/ flush_pending

SpecPipeline == InitPipeline /\ [][NextPipeline]_vars

\* the names of the filters of the chain
FilterNames ==
  { "MinLength", "EnglishOnly", "BlockedKeyword", "BlockedHashtag", "BlockedAuthor",
    "Spammer", "PromoLink", "TooManyHashtags" }

\* C2: an insert_post whose post the filter chain rejects submits no request to
\* the ML worker, appends nothing to any pending queue and writes nothing to the
\* store.
C2_RejectedPostLeavesNoTrace ==
  [][ (last_call'.op = "insert_post" /\ last_call'.result \in FilterNames) =>
        /\ ml_sent' = 0
        /\ UNCHANGED << pending_posts, pending_likes, pending_deletes, pending_like_deletes >>
        /\ UNCHANGED << posts, likes >> ]_vars

\* a post of a flagged author was rejected while an accepted post was waiting
C2_Witness ==
  /\ last_call = Call("insert_post", "Spammer")
  /\ ml_sent = 0
  /\ Len(pending_posts) = 1

(***************************************************************************)
(* The ranker: serve_feed and handle_interactions (handler.rs).            *)
(* An Option the model dissects is a sequence: << >> is None, << x >> is   *)
(* Some(x).  A score is an exact fraction num / den with den > 0; the      *)
(* preference modifiers are in tenths and the jitter in hundredths.        *)
(***************************************************************************)
SHUFFLE_VARIANCE == 5

PREFERENCE_BOOST == 15

PREFERENCE_PENALTY == 3

\* DECAY_FACTOR = 0.75 = DECAY_NUM / DECAY_DEN
DECAY_NUM == 3

DECAY_DEN == 4

\* the values rng.random_range(-SHUFFLE_VARIANCE..SHUFFLE_VARIANCE) takes in the model
Jitters == { -SHUFFLE_VARIANCE, SHUFFLE_VARIANCE - 1 }

\* a time-decayed score that ignores the age of the post
apply_time_decay_ageless(score, post_time, now_time) == [ num |-> score, den |-> 1 ]

\* score * DECAY_FACTOR.powf(hours_old / DECAY_EVERY_X_HOURS); the unit of time is
\* DECAY_EVERY_X_HOURS, so the exponent is now_time - post_time
apply_time_decay(score, post_time, now_time) ==
  LET age == now_time - post_time
  IN  IF age >= 0
      THEN [ num |-> score * powi(DECAY_NUM, age), den |-> powi(DECAY_DEN, age) ]
      ELSE [ num |-> score * powi(DECAY_DEN, -age), den |-> powi(DECAY_NUM, -age) ]

\* a.partial_cmp(b) == Greater
ScoreGreater(a, b) == a.num * b.den > b.num * a.den

\* "0".."9" to 0..9
digit_value(c) == (CHOOSE i \in DOMAIN DIGITS : DIGITS[i] = c) - 1

RECURSIVE digits_value(_, _, _)
digits_value(s, i, acc) ==
  IF i > Len(s) THEN acc ELSE digits_value(s, i + 1, acc * 10 + digit_value(s[i]))

\* str::parse::<usize>: an optional "+" and at least one digit; -1 stands for Err
parse_usize(s) ==
  LET body == IF s # << >> /\ s[1] = "+" THEN Tail(s) ELSE s
  IN  IF body = << >> \/ \E i \in DOMAIN body : body[i] \notin Range(DIGITS) THEN -1
      ELSE digits_value(body, 1, 0)

\* usize::to_string
RECURSIVE to_string(_)
to_string(n) ==
  IF n < 10 THEN << DIGITS[n + 1] >> ELSE Append(to_string(n \div 10), DIGITS[(n % 10) + 1])

FeedRequest(user_did, cursor, limit) ==
  [ user_did |-> user_did, cursor |-> cursor, limit |-> limit ]

\* request.cursor.and_then(|c| c.parse::<usize>().ok()).unwrap_or(0)
start_index_of(request) ==
  IF request.cursor = << >> THEN 0
  ELSE IF parse_usize(request.cursor[1]) < 0 THEN 0
  ELSE parse_usize(request.cursor[1])

\* a limit that is not capped by FEED_MAX_LIMIT
limit_uncapped(request) ==
  IF request.limit = << >> THEN FEED_DEFAULT_LIMIT ELSE request.limit[1]

\* request.limit.map(|l| l.min(FEED_MAX_LIMIT)).unwrap_or(FEED_DEFAULT_LIMIT)
limit_of(request) ==
  IF request.limit = << >> THEN FEED_DEFAULT_LIMIT ELSE Min(request.limit[1], FEED_MAX_LIMIT)

\* the viewer's seen set, empty without a viewer
seen_posts_of(request, interaction_tbl, cutoff) ==
  IF request.user_did = None THEN {}
  ELSE get_user_seen_posts(interaction_tbl, request.user_did, cutoff)

\* the authors of the stored posts the viewer asked to see more of
boosted_authors_of(request, interaction_tbl, post_tbl) ==
  IF request.user_did = None THEN {}
  ELSE { get_post_author(post_tbl, pref.post_uri) :
           pref \in { x \in get_user_preferences(interaction_tbl, request.user_did) :
                        x.is_request_more } } \ { None }

\* the authors of the stored posts the viewer asked to see less of
penalized_authors_of(request, interaction_tbl, post_tbl) ==
  IF request.user_did = None THEN {}
  ELSE { get_post_author(post_tbl, pref.post_uri) :
           pref \in { x \in get_user_preferences(interaction_tbl, request.user_did) :
                        ~x.is_request_more } } \ { None }

\* the modifier 1.0
NEUTRAL == 10

preference_modifier(author_did, boosted_authors, penalized_authors) ==
  IF author_did = None THEN NEUTRAL
  ELSE IF author_did \in boosted_authors THEN PREFERENCE_BOOST
  ELSE IF author_did \in penalized_authors THEN PREFERENCE_PENALTY
  ELSE NEUTRAL

\* the posts of the list with no filter for what the viewer saw
unseen_unfiltered(posts_list, seen_posts) == posts_list

\* posts.iter().filter(|p| !seen_posts.contains(&p.uri))
unseen(posts_list, seen_posts) == SelectSeq(posts_list, LAMBDA p : p.uri \notin seen_posts)

\* (p, final_score), with the factors of the score kept beside it
scored(p, now_time, boosted_authors, penalized_authors, variance) ==
  LET base_score == apply_time_decay(p.priority, p.timestamp, now_time)
      modifier == preference_modifier(p.author_did, boosted_authors, penalized_authors)
  IN  [ uri |-> p.uri, timestamp |-> p.timestamp, priority |-> p.priority,
        author_did |-> p.author_did, modifier |-> modifier, variance |-> variance,
        final_score |-> [ num |-> base_score.num * modifier * (100 + variance),
                          den |-> base_score.den ] ]

\* sort_by(|a, b| b.1.partial_cmp(&a.1)): a stable sort, greatest score first
RECURSIVE sort_from(_, _, _)
sort_from(list, i, sorted) ==
  IF i > Len(list) THEN sorted
  ELSE LET x == list[i]
           behind == { k \in DOMAIN sorted : ScoreGreater(x.final_score, sorted[k].final_score) }
           at == IF behind = {} THEN Len(sorted) + 1
                 ELSE CHOOSE k \in behind : \A j \in behind : k <= j
       IN  sort_from(list, i + 1,
                     SubSeq(sorted, 1, at - 1) \o << x >> \o SubSeq(sorted, at, Len(sorted)))

sort_by_score(list) == sort_from(list, 1, << >>)

\* skip(start_index).take(limit)
page(list, start_index, limit) ==
  SubSeq(list, start_index + 1, Min(start_index + limit, Len(list)))

\* the storage operations of serve_feed that can fail
StorageFailures == { "pool.get", "get_feed", "get_user_seen_posts", "get_user_preferences" }

\* the answer of a serve_feed that goes on with the rows it has when the listing fails
feed_answer_listing_unchecked(request, posts_list, variance, failed) ==
  LET cutoff == now - FEED_CUTOFF
      seen_posts == IF failed = "get_user_seen_posts" THEN {}
                    ELSE seen_posts_of(request, user_interactions, cutoff)
      boosted_authors == IF failed = "get_user_preferences" THEN {}
                         ELSE boosted_authors_of(request, user_interactions, posts)
      penalized_authors == IF failed = "get_user_preferences" THEN {}
                           ELSE penalized_authors_of(request, user_interactions, posts)
      start_index == start_index_of(request)
      limit == limit_of(request)
      unseen_posts == unseen(posts_list, seen_posts)
      scored_posts == sort_by_score([ i \in DOMAIN unseen_posts |->
                        scored(unseen_posts[i], now, boosted_authors, penalized_authors,
                               variance[unseen_posts[i].uri]) ])
      page_posts == page(scored_posts, start_index, limit)
      filtered_count == Len(posts_list) - Min(Cardinality(seen_posts), Len(posts_list))
      next_cursor == IF start_index + limit < filtered_count
                     THEN << to_string(start_index + limit) >> ELSE << >>
  IN  IF failed = "pool.get"
      THEN [ served |-> TRUE, request |-> request, scored_posts |-> << >>,
             page_posts |-> << >>, feed |-> << >>, cursor |-> << >> ]
      ELSE [ served |-> TRUE, request |-> request, scored_posts |-> scored_posts,
             page_posts |-> page_posts,
             feed |-> [ i \in DOMAIN page_posts |-> page_posts[i].uri ],
             cursor |-> next_cursor ]

\* what serve_feed returns for one order of the rows get_feed returns, one draw of
\* the generator per unseen post and one failing storage operation (None: none fails)
feed_answer(request, posts_list, variance, failed) ==
  LET cutoff == now - FEED_CUTOFF
      seen_posts == IF failed = "get_user_seen_posts" THEN {}
                    ELSE seen_posts_of(request, user_interactions, cutoff)
      boosted_authors == IF failed = "get_user_preferences" THEN {}
                         ELSE boosted_authors_of(request, user_interactions, posts)
      penalized_authors == IF failed = "get_user_preferences" THEN {}
                           ELSE penalized_authors_of(request, user_interactions, posts)
      start_index == start_index_of(request)
      limit == limit_of(request)
      unseen_posts == unseen(posts_list, seen_posts)
      scored_posts == sort_by_score([ i \in DOMAIN unseen_posts |->
                        scored(unseen_posts[i], now, boosted_authors, penalized_authors,
                               variance[unseen_posts[i].uri]) ])
      page_posts == page(scored_posts, start_index, limit)
      filtered_count == Len(posts_list) - Min(Cardinality(seen_posts), Len(posts_list))
      next_cursor == IF start_index + limit < filtered_count
                     THEN << to_string(start_index + limit) >> ELSE << >>
  IN  IF failed \in { "pool.get", "get_feed" }
      THEN [ served |-> TRUE, request |-> request, scored_posts |-> << >>,
             page_posts |-> << >>, feed |-> << >>, cursor |-> << >> ]
      ELSE [ served |-> TRUE, request |-> request, scored_posts |-> scored_posts,
             page_posts |-> page_posts,
             feed |-> [ i \in DOMAIN page_posts |-> page_posts[i].uri ],
             cursor |-> next_cursor ]

\* serve_feed: the FeedResult and the request it answers
serve_feed_with(request, posts_list, variance, failed) ==
  /\ phase = "serving"
  /\ feed_result = NoFeed
  /\ feed_result' = feed_answer(request, posts_list, variance, failed)
  /\ ml_sent' = 0
  /\ last_call' = [ Call("serve_feed", "served") EXCEPT !.who = failed ]
  /\ UNCHANGED << worker_vars, flush_task, pure_call, posts, likes, user_interactions, spammers, pending_posts,
                  pending_likes, pending_deletes, pending_like_deletes, now, phase,
                  reposts, blocked_authors, engagement_cache >>

\* serve_feed when every storage operation succeeds
serve_feed(request, posts_list, variance) == serve_feed_with(request, posts_list, variance, None)

\* the server hands the FeedResult to the client
deliver_feed ==
  /\ feed_result.served
  /\ feed_result' = NoFeed
  /\ UNCHANGED << worker_vars, flush_task, pure_call, posts, likes, user_interactions, spammers, pending_posts, pending_likes,
                  pending_deletes, pending_like_deletes, now, phase, ml_sent, last_call,
                  reposts, blocked_authors, engagement_cache >>

\* the interaction type of an event, << >> for an event that is dropped
interaction_type_of(event) ==
  CASE event = "RequestLess" -> << INTERACTION_REQUEST_LESS >>
    [] event = "RequestMore" -> << INTERACTION_REQUEST_MORE >>
    [] event = "InteractionSeen" -> << INTERACTION_SEEN >>
    [] OTHER -> << >>

RECURSIVE db_interactions_from(_, _, _, _)
db_interactions_from(user_did, interactions, created_at, i) ==
  IF i > Len(interactions) THEN << >>
  ELSE LET itype == interaction_type_of(interactions[i].event)
       IN  (IF itype # << >>
            THEN << NewInteraction(user_did, interactions[i].item, itype[1], created_at) >>
            ELSE << >>) \o db_interactions_from(user_did, interactions, created_at, i + 1)

handle_interactions(user_did, interactions) ==
  LET db_interactions == db_interactions_from(user_did, interactions, now, 1)
  IN  /\ phase = "serving"
      /\ user_interactions' = IF db_interactions # << >>
                              THEN insert_interactions(user_interactions, db_interactions)
                              ELSE user_interactions
      /\ ml_sent' = 0
      /\ last_call' = [ Call("handle_interactions", "done") EXCEPT
                          !.rows = Len(db_interactions) ]
      /\ feed_result' = NoFeed
      /\ UNCHANGED << worker_vars, flush_task, pure_call, posts, likes, spammers, pending_posts, pending_likes,
                      pending_deletes, pending_like_deletes, now, phase,
                      reposts, blocked_authors, engagement_cache >>

(***************************************************************************)
(* The ranker specification: a store that the pipeline and a flush left,   *)
(* the interactions of one viewer, and feed requests.                      *)
(***************************************************************************)
\* interactions the handler records in one run
MaxInteractions == 1

VIEWER == "did:v1"

\* a uri that no stored post carries (its post was deleted, or never accepted)
GONE_URI == "at://a9/gone"

\* the row insert_post queues for a record, as accepted with the given ML answer
StoredRow(uri, timestamp, label) ==
  process_post([ Record(uri) EXCEPT !.timestamp = timestamp ],
               CHOOSE a \in MLAnswers : a.best_label = label, {}).new_posts[1]

\* a post of the newest time, two posts of two periods before (one of a higher
\* priority than the newest, one that the decay puts behind it) and a post as
\* old as the cutoff
RecencyStore ==
  { StoredRow("at://a1/1", StartTime, LABEL_PROGRAMMING),
    StoredRow("at://a1/2", StartTime - 2, LABEL_PROGRAMMING),
    StoredRow("at://a2/2", StartTime - 2, LABEL_SHARING),
    StoredRow("at://a2/1", StartTime - FEED_CUTOFF, LABEL_SHARING) }

\* three posts of one time: two of one author, and a post of another author
\* with the priority of one of them
PreferenceStore ==
  { StoredRow("at://a1/1", StartTime, LABEL_SHARING),
    StoredRow("at://a1/3", StartTime, LABEL_SHARING),
    StoredRow("at://a2/1", StartTime, LABEL_SHARING) }

FeedStores == { RecencyStore, PreferenceStore }

\* a 'seen' mark of an earlier run, created at the cutoff
OldSeen ==
  StoredInteraction(NewInteraction(VIEWER, "at://a1/2", INTERACTION_SEEN,
                                   StartTime - FEED_CUTOFF), 1)

InitFeed ==
  /\ likes = {}
  /\ user_interactions = { OldSeen }
  /\ spammers = {}
  /\ reposts = {}
  /\ blocked_authors = {}
  /\ engagement_cache = {}
  /\ WorkerReady
  /\ flush_task = "running"
  /\ pure_call = NoCall
  /\ pending_posts = << >>
  /\ pending_likes = << >>
  /\ pending_deletes = << >>
  /\ pending_like_deletes = << >>
  /\ now = StartTime
  /\ ml_sent = 0
  /\ last_call = Call("new", None)
  /\ feed_result = NoFeed
  /\ posts \in FeedStores
  /\ phase = "serving"

\* the cursors of the requests: none, one this handler issued, one it cannot parse
Cursors == { << >>, << << "1" >> >>, << << "x" >> >> }

\* the limits of the requests: none, one, more than the handler allows
Limits == { << >>, << 1 >>, << FEED_MAX_LIMIT + 1 >> }

Requests ==
  { FeedRequest(u, c, l) : u \in { None, VIEWER }, c \in Cursors, l \in Limits }

\* the uris the generator is drawn for: one draw for each post that passes the filter
unseen_uris(request, posts_list) ==
  LET kept == unseen(posts_list, seen_posts_of(request, user_interactions, now - FEED_CUTOFF))
  IN  { kept[i].uri : i \in DOMAIN kept }

ServeFeed ==
  \E request \in Requests, posts_list \in get_feed(posts, now - FEED_CUTOFF) :
    \E variance \in [ unseen_uris(request, posts_list) -> Jitters ] :
      serve_feed(request, posts_list, variance)

\* what the viewer reports: a post seen (stored or not), less or more of an author,
\* and an event of another kind
Interactions ==
  { [ event |-> "InteractionSeen", item |-> "at://a1/1" ],
    [ event |-> "InteractionSeen", item |-> "at://a1/2" ],
    [ event |-> "InteractionSeen", item |-> GONE_URI ],
    [ event |-> "RequestLess", item |-> "at://a1/1" ],
    [ event |-> "RequestMore", item |-> "at://a1/3" ],
    [ event |-> "InteractionLike", item |-> "at://a1/1" ] }

HandleInteractions ==
  /\ Cardinality(user_interactions) <= MaxInteractions
  /\ \E interaction \in Interactions : handle_interactions(VIEWER, << interaction >>)

NextFeed ==
  \/ ServeFeed
  \/ deliver_feed
  \/ HandleInteractions

SpecFeed == InitFeed /\ [][NextFeed]_vars

(***************************************************************************)
(* Properties of the ranker specification.  A state with                   *)
(* feed_result.served is the state serve_feed read, with its answer.       *)
(***************************************************************************)
\* config.priority_bucket_hours, in units of time
bucket_seconds == 1

bucket(timestamp) == timestamp \div bucket_seconds

\* stored_priority * pref_modifier * (1 + jitter)
display(e) == e.priority * e.modifier * (100 + e.variance)

decayed_display(e, other) ==
  e.priority * powi(DECAY_NUM, now - e.timestamp) * e.modifier * (100 + e.variance)
    * powi(DECAY_DEN, now - other.timestamp)

SeenAfterCutoff ==
  { x.post_uri : x \in { y \in user_interactions :
                           /\ y.user_did = feed_result.request.user_did
                           /\ y.interaction_type = INTERACTION_SEEN
                           /\ y.created_at > now - FEED_CUTOFF } }

\* the stored posts within the cutoff
Listed == { r \in posts : r.timestamp > now - FEED_CUTOFF }

\* the page size and the start the request asks for
RequestedLimit ==
  IF feed_result.request.limit = << >> THEN FEED_DEFAULT_LIMIT
  ELSE Min(feed_result.request.limit[1], FEED_MAX_LIMIT)

IsDecimal(s) == s # << >> /\ \A i \in DOMAIN s : s[i] \in Range(DIGITS)

RequestedStart ==
  IF feed_result.request.cursor # << >> /\ IsDecimal(feed_result.request.cursor[1])
  THEN digits_value(feed_result.request.cursor[1], 1, 0)
  ELSE 0

UnseenListed ==
  Cardinality({ r \in Listed :
                  feed_result.request.user_did = None \/ r.uri \notin SeenAfterCutoff })

\* C8 as stated: serve_feed returns a cursor exactly when an unseen post within
\* the cutoff ranks beyond start_index + limit, and the cursor is the decimal
\* string of start_index + limit.
C8_CursorIffRemainder ==
  feed_result.served =>
    /\ feed_result.cursor # << >> <=> RequestedStart + RequestedLimit < UnseenListed
    /\ feed_result.cursor # << >> =>
         feed_result.cursor[1] = to_string(RequestedStart + RequestedLimit)

\* C9: a feed holds at most min(limit, FEED_MAX_LIMIT) uris when the request
\* gives a limit and at most FEED_DEFAULT_LIMIT when it gives none; with no
\* cursor, or one that is no decimal number, the feed is the head of the ranking.
C9_PageSizeAndStart ==
  feed_result.served =>
    /\ feed_result.request.limit # << >> =>
         Len(feed_result.feed) <= Min(feed_result.request.limit[1], FEED_MAX_LIMIT)
    /\ feed_result.request.limit = << >> => Len(feed_result.feed) <= FEED_DEFAULT_LIMIT
    /\ (feed_result.request.cursor = << >> \/ ~IsDecimal(feed_result.request.cursor[1])) =>
         /\ Len(feed_result.feed) = Min(RequestedLimit, Len(feed_result.scored_posts))
         /\ \A i \in DOMAIN feed_result.feed :
              feed_result.feed[i] = feed_result.scored_posts[i].uri

\* a request for more than the handler allows, with a cursor that is no number,
\* was served the first FEED_MAX_LIMIT posts of a longer ranking
C9_Witness ==
  /\ feed_result.served
  /\ feed_result.request.limit = << FEED_MAX_LIMIT + 1 >>
  /\ feed_result.request.cursor = << << "x" >> >>
  /\ Len(feed_result.feed) = FEED_MAX_LIMIT
  /\ Len(feed_result.scored_posts) > FEED_MAX_LIMIT

\* the authors of the stored posts the viewer of the request has a preference on
PreferredAuthors(kinds) ==
  { r.author_did : r \in { x \in posts :
      \E y \in user_interactions : /\ y.user_did = feed_result.request.user_did
                                   /\ y.interaction_type \in kinds
                                   /\ y.post_uri = x.uri } }

\* the place of a uri in the ranking
Place(uri) ==
  CHOOSE i \in DOMAIN feed_result.scored_posts : feed_result.scored_posts[i].uri = uri

\* C10 as stated: when the viewer asked for less of a stored post P, then of two
\* ranked posts of one recency bucket and equal stored priority, one by the
\* author of P and one by an author the viewer has no preference for, the
\* other author's post ranks strictly ahead.
C10_PenalizedAuthorBehind ==
  (feed_result.served /\ feed_result.request.user_did # None) =>
    \A a, b \in Range(feed_result.scored_posts) :
      ( /\ a.author_did \in PreferredAuthors({ INTERACTION_REQUEST_LESS })
        /\ b.author_did \notin PreferredAuthors({ INTERACTION_REQUEST_LESS,
                                                  INTERACTION_REQUEST_MORE })
        /\ bucket(a.timestamp) = bucket(b.timestamp)
        /\ a.priority = b.priority )
      => Place(b.uri) < Place(a.uri)

(***************************************************************************)
(* The engagement tracker's calls and the moderator's block.               *)
(***************************************************************************)
\* record_repost that appends the repost before it looks at the frequency
record_repost_appending_first(post_uri, repost_uri, reposter_did) ==
  LET appended == insert_repost(reposts, NewRepost(post_uri, repost_uri, reposter_did, now))
      spam == check_repost_spam(appended, reposter_did, now)
  IN  /\ phase = "serving"
      /\ reposts' = appended
      /\ engagement_cache' = update_engagement_cache(engagement_cache, appended, likes,
                                                      post_uri, now)
      /\ IF spam # << >>
         THEN /\ spammers' = flag_spammer_internal(spammers, reposter_did, spam[1].reason,
                                                   spam[1].frequency, now)
              /\ last_call' = [ Call("record_repost", "SpamDetected") EXCEPT
                                  !.who = reposter_did ]
         ELSE /\ spammers' = spammers
              /\ last_call' = [ Call("record_repost", "Ok") EXCEPT !.who = reposter_did ]
      /\ ml_sent' = 0
      /\ feed_result' = NoFeed
      /\ UNCHANGED << worker_vars, flush_task, pure_call, posts, likes, user_interactions, blocked_authors, pending_posts,
                      pending_likes, pending_deletes, pending_like_deletes, now, phase >>

\* the storage operations of record_repost that can fail
RepostFailures ==
  { "pool.get", "count", "flag_spammer_internal", "insert_repost", "update_engagement_cache" }

\* record_repost when the storage operation failed fails (None: none fails).
\* A failed pool.get is mapped to a SpamDetected with the reason "database
\* error"; a failed count reads as 0; the results of the three writes are
\* dropped with .ok()
record_repost_with(post_uri, repost_uri, reposter_did, failed) ==
  LET spam == check_repost_spam(IF failed = "count" THEN {} ELSE reposts, reposter_did, now)
  IN  /\ phase = "serving"
      /\ IF failed = "pool.get"
         THEN /\ last_call' = [ Call("record_repost", "SpamDetected") EXCEPT
                                  !.who = reposter_did ]
              /\ UNCHANGED << spammers, reposts, engagement_cache >>
         ELSE IF spam # << >>
         THEN /\ failed \in { None, "flag_spammer_internal" }
              /\ spammers' = IF failed = "flag_spammer_internal" THEN spammers
                             ELSE flag_spammer_internal(spammers, reposter_did,
                                                        spam[1].reason, spam[1].frequency, now)
              /\ last_call' = [ Call("record_repost", "SpamDetected") EXCEPT
                                  !.who = reposter_did ]
              /\ UNCHANGED << reposts, engagement_cache >>
         ELSE /\ failed \in { None, "count", "insert_repost", "update_engagement_cache" }
              /\ reposts' = IF failed = "insert_repost" THEN reposts
                            ELSE insert_repost(reposts,
                                   NewRepost(post_uri, repost_uri, reposter_did, now))
              /\ engagement_cache' =
                   IF failed = "update_engagement_cache" THEN engagement_cache
                   ELSE update_engagement_cache(engagement_cache, reposts', likes,
                                                post_uri, now)
              /\ last_call' = [ Call("record_repost", "Ok") EXCEPT !.who = reposter_did ]
              /\ spammers' = spammers
      /\ ml_sent' = 0
      /\ feed_result' = NoFeed
      /\ UNCHANGED << worker_vars, flush_task, pure_call, posts, likes, user_interactions, blocked_authors, pending_posts,
                      pending_likes, pending_deletes, pending_like_deletes, now, phase >>

\* record_repost when the store answers every operation
record_repost(post_uri, repost_uri, reposter_did) == record_repost_with(post_uri, repost_uri, reposter_did, None)

flag_spammer(did, reason) ==
  /\ phase = "serving"
  /\ spammers' = flag_spammer_internal(spammers, did, reason, << >>, now)
  /\ ml_sent' = 0
  /\ feed_result' = NoFeed
  /\ last_call' = [ Call("flag_spammer", "Ok") EXCEPT !.who = did ]
  /\ UNCHANGED << worker_vars, flush_task, pure_call, posts, likes, user_interactions, reposts, blocked_authors, engagement_cache,
                  pending_posts, pending_likes, pending_deletes, pending_like_deletes,
                  now, phase >>

\* the moderator's step: block_author and delete_posts_by_author in one write
\* on the connection conn
moderator_block(did, post_uri) ==
  /\ phase = "serving"
  /\ blocked_authors' = block_author(blocked_authors, NewBlockedAuthor(did, post_uri, now))
  /\ posts' = delete_posts_by_author(posts, did)
  /\ \E conn \in pool_get : likes' = on_delete_cascade(likes, posts, posts', conn)
  /\ ml_sent' = 0
  /\ feed_result' = NoFeed
  /\ last_call' = [ Call("block_author", "Ok") EXCEPT !.who = did ]
  /\ UNCHANGED << worker_vars, flush_task, pure_call, user_interactions, spammers, reposts, engagement_cache, pending_posts,
                  pending_likes, pending_deletes, pending_like_deletes, now, phase >>

(***************************************************************************)
(* The admission specification: the backfill and the live path over every  *)
(* record and every ML answer of the world, with the registries an earlier *)
(* run left.                                                               *)
(***************************************************************************)
\* the row a moderator's block left in an earlier run
BlockedRow == NewBlockedAuthor("did:a1", "at://a1/0", StartTime - 1)

InitAdmission ==
  /\ posts = {}
  /\ likes = {}
  /\ user_interactions = {}
  /\ spammers \in SpammerRegistries
  /\ reposts = {}
  /\ blocked_authors = { BlockedRow }
  /\ engagement_cache = {}
  /\ WorkerReady
  /\ flush_task = "running"
  /\ pure_call = NoCall
  /\ pending_posts = << >>
  /\ pending_likes = << >>
  /\ pending_deletes = << >>
  /\ pending_like_deletes = << >>
  /\ now = StartTime
  /\ phase = "backfill"
  /\ ml_sent = 0
  /\ last_call = Call("new", None)
  /\ feed_result = NoFeed

\* the search returns one record of the world
BackfillAny ==
  \/ \E post \in PipelinePosts, ml_scores \in MLAnswers :
       run_backfill(<< post >>, << ml_scores >>)
  \/ backfill_skipped

NextAdmission ==
  \/ BackfillAny
  \/ InsertAnyPost
  \/ flush_pending

SpecAdmission == InitAdmission /\ [][NextAdmission]_vars

\* the authors either registry excludes
ExcludedAuthors ==
  { d \in DIDS : is_spammer(spammers, d) \/ is_blocked_author(blocked_authors, d) }

\* the records a step appends to pending_posts
AppendedPosts ==
  { pending_posts'[i] : i \in (Len(pending_posts) + 1)..Len(pending_posts') }

\* C14: no post whose author is in the spammer registry or in the blocked-author
\* registry when the post is processed is appended to pending_posts by
\* insert_post or inserted into the store by the backfill.
C14_ExcludedAuthorsNotIngested ==
  [][ /\ last_call'.op = "insert_post" =>
           \A r \in AppendedPosts : r.author_did \notin ExcludedAuthors
      /\ last_call'.op = "run_backfill" =>
           \A r \in posts' \ posts : r.author_did \notin ExcludedAuthors ]_vars
(***************************************************************************)
(* The moderation specification: reposts, flags and blocks while posts     *)
(* arrive and the timers run.                                              *)
(***************************************************************************)
\* the reposts of the world: two by an author of the world, one by a reader
RepostEvents ==
  { [ repost_uri |-> "repost:1", reposter_did |-> "did:a2" ],
    [ repost_uri |-> "repost:2", reposter_did |-> "did:a2" ],
    [ repost_uri |-> "repost:3", reposter_did |-> "did:r1" ] }

\* a repost an earlier run recorded, older than the feed cutoff
OldRepost == NewRepost("at://a1/1", "repost:0", "did:a2", StartTime - FEED_CUTOFF - 1)

\* a repost the same author made just before the specification starts
RecentRepost == NewRepost("at://a1/1", "repost:r", "did:a2", StartTime)

\* the counters record_repost left behind when it recorded RecentRepost
RecordedCounters ==
  update_engagement_cache({}, { OldRepost, RecentRepost }, {}, "at://a1/1", StartTime)

\* the firehose posts of this specification: a post of each author that the
\* pipeline accepts
ModerationPosts ==
  { p \in PipelinePosts : p.uri \in { "at://a1/2", "at://a2/1" } }

InitModeration ==
  /\ posts = { PersistedRow }
  /\ likes = {}
  /\ user_interactions = {}
  /\ spammers = {}
  /\ reposts = { OldRepost, RecentRepost }
  /\ blocked_authors = {}
  /\ engagement_cache = RecordedCounters
  /\ WorkerReady
  /\ flush_task = "running"
  /\ pure_call = NoCall
  /\ pending_posts = << >>
  /\ pending_likes = << >>
  /\ pending_deletes = << >>
  /\ pending_like_deletes = << >>
  /\ now = StartTime
  /\ phase = "serving"
  /\ ml_sent = 0
  /\ last_call = Call("new", None)
  /\ feed_result = NoFeed

RecordRepost ==
  \E ev \in RepostEvents : record_repost("at://a1/1", ev.repost_uri, ev.reposter_did)

FlagSpammer == flag_spammer("did:a2", << "reported" >>)

ModeratorBlock == moderator_block("did:a1", "at://a1/1")

InsertModeratedPost ==
  \E post \in ModerationPosts, ml_scores \in StorageAnswers : insert_post(post, ml_scores)

NextModeration ==
  \/ RecordRepost
  \/ FlagSpammer
  \/ ModeratorBlock
  \/ InsertModeratedPost
  \/ flush_pending
  \/ cleanup_old_posts
  \/ Tick

SpecModeration == InitModeration /\ [][NextModeration]_vars
(***************************************************************************)
(* Claims about moderation.                                                *)
(***************************************************************************)
\* C15: once an author is blocked, the store holds no post by that author in
\* any later state, also when a post of theirs was waiting in pending_posts at
\* the moment of the block.
C15_NoStoredPostOfBlockedAuthor ==
  \A blocked \in blocked_authors : \A row \in posts : row.author_did # blocked.did

\* the accounts that repost
Reposters == { ev.reposter_did : ev \in RepostEvents }

\* the step is a record_repost call for the reposter d
RepostStep(d) ==
  /\ last_call'.op = "record_repost"
  /\ last_call'.who = d
  /\ now' = now

\* the reposts of d in the table tbl recorded less than velocity_window_hours
\* before the time t
RecentRepostsIn(tbl, d, t) ==
  { r \in tbl :
      /\ r.reposter_did = d
      /\ (t - r.timestamp) * DECAY_EVERY_X_HOURS < velocity_window_hours }

RecentReposts(d) == RecentRepostsIn(reposts, d, now)

\* reposts per hour over the window, in thousandths
Frequency(d) == (Cardinality(RecentReposts(d)) * 1000) \div velocity_window_hours

AtThreshold(d) == Frequency(d) >= repost_threshold * 1000

RegistryRows(tbl, d) == { s \in tbl : s.did = d }

\* the row the detection writes for d
DetectionRow(d) == NewSpammer(d, spam_reason(Frequency(d)), << Frequency(d) >>, now, 1)

FreshRepost(post_uri, ev) ==
  \A r \in reposts : ~(r.post_uri = post_uri /\ r.repost_uri = ev.repost_uri)

C18_PriorityAtLeastMinimum ==
  [][ /\ last_call'.op = "insert_post" =>
           \A r \in AppendedPosts : r.priority >= thresholds_score
      /\ last_call'.op = "run_backfill" =>
           \A r \in posts' \ posts : r.priority >= thresholds_score ]_vars

\* C19: every post in the store and every record in pending_posts has
\* priority >= 0.
C19_PriorityNeverNegative ==
  /\ \A r \in posts : r.priority >= 0
  /\ \A i \in DOMAIN pending_posts : pending_posts[i].priority >= 0

influencer_bypass == { "did:a2" }

\* the records of the world with neither a topical keyword nor a topical hashtag
Unsignalled == { p \in PipelinePosts : ~has_keywords(p.text) /\ ~has_hashtags(p.text) }

\* C21: a post that passes the filter chain with neither a topical keyword nor
\* a topical hashtag is dropped before any ML request unless its author is on
\* the influencer-bypass list; a post of an author on the list goes on to the
\* ML worker.
C21_BypassListSkipsRelevance ==
  [][ \A post \in Unsignalled, ml_scores \in MLAnswers :
        ( /\ insert_post(post, ml_scores)
          /\ ~post.reply
          /\ last_call'.result \notin FilterNames ) =>
          IF post.author_did \in influencer_bypass
          THEN ml_sent' = 1
          ELSE ml_sent' = 0 /\ pending_posts' = pending_posts ]_vars

\* C22: insert_post on a post with a reply field has no effect: no ML request
\* is sent, no pending queue changes and no table of the store changes.
C22_ReplyIgnored ==
  [][ \A post \in PipelinePosts, ml_scores \in MLAnswers :
        (post.reply /\ insert_post(post, ml_scores)) =>
          /\ ml_sent' = 0
          /\ UNCHANGED << pending_posts, pending_likes, pending_deletes, pending_like_deletes >>
          /\ UNCHANGED << posts, likes, user_interactions, spammers, reposts,
                          blocked_authors, engagement_cache >> ]_vars

\* insert_post has just returned on a reply while an accepted post was waiting
C22_Witness ==
  /\ last_call = Call("insert_post", "reply")
  /\ ml_sent = 0
  /\ Len(pending_posts) = 1

(***************************************************************************)
(* Claims about the ML worker, under SpecWorker.                           *)
(***************************************************************************)
\* C23: every batch the worker processes holds at least 1 and at most
\* ML_BATCH_SIZE requests; the worker opens a batch with the request a blocking
\* receive returned, adds requests one at a time while the batch is not full, and
\* closes it when it is full or when a timed receive finds the channel empty
\* (timeout, or channel closed); the blocking receive ends the thread only on an
\* empty closed channel.
C23_BatchBounds ==
  [][ /\ worker' = "process" => Len(batch') >= 1 /\ Len(batch') <= ML_BATCH_SIZE
      /\ (worker = "recv" /\ worker' = "fill") =>
           /\ batch = << >>
           /\ request_rx # << >>
           /\ batch' = << Head(request_rx) >>
      /\ (worker = "recv" /\ worker' = "terminated") => request_rx = << >> /\ ~handle_live
      /\ (worker = "fill" /\ batch' # batch) =>
           /\ Len(batch) < ML_BATCH_SIZE
           /\ request_rx # << >>
           /\ batch' = Append(batch, Head(request_rx))
           /\ worker' = "fill"
      /\ (worker = "fill" /\ worker' = "process") =>
           /\ batch' = batch
           /\ Len(batch) = ML_BATCH_SIZE \/ request_rx = << >> ]_vars

\* the worker closed a full batch while another request was queued
C23_Witness ==
  /\ worker = "process"
  /\ Len(batch) = ML_BATCH_SIZE
  /\ request_rx # << >>

\* the caller id has a request in the sequence
InRequests(requests, id) == \E i \in DOMAIN requests : requests[i].id = id

\* what the worker can send for a text: the scores of that text, or the
\* defaults when the prediction failed
OwnScores(text) == { worker_answer(classify(text)), worker_answer(MLScores_default) }

C25_TerminatedWorkerAnswersDefault ==
  /\ [][ worker' = "terminated" =>
           /\ request_rx' = << >>
           /\ batch' = << >>
           /\ \A id \in RequestIds :
                /\ callers'[id].state = "waiting" =>
                     callers'[id].reply # << >> \/ callers'[id].closed
                /\ ( /\ worker = "terminated"
                     /\ callers[id].state # "returned"
                     /\ callers'[id].state = "returned"
                     /\ callers[id].reply = << >> ) =>
                     callers'[id].result = << MLScores_default >> ]_vars
  /\ \A id \in RequestIds :
       (worker = "terminated" /\ callers[id].state = "waiting")
         ~> (callers[id].state = "returned" \/ callers[id].state = "dropped")

\* the worker is gone: a call that was queued when it went and a call made
\* afterwards have both returned the default scores
C25_Witness ==
  \E id1, id2 \in RequestIds :
    /\ worker = "terminated"
    /\ callers[id1].state = "returned"
    /\ callers[id1].closed
    /\ callers[id1].result = << MLScores_default >>
    /\ callers[id2].state = "returned"
    /\ ~callers[id2].closed
    /\ callers[id2].answers = 0
    /\ callers[id2].result = << MLScores_default >>

(***************************************************************************)
(* The read path under storage failures.                                   *)
(***************************************************************************)
\* what the viewer told the handler in this run: a post seen, less of an author
SeenRow == StoredInteraction(NewInteraction(VIEWER, "at://a1/1", INTERACTION_SEEN, StartTime), 1)

LessRow ==
  StoredInteraction(NewInteraction(VIEWER, "at://a2/1", INTERACTION_REQUEST_LESS, StartTime), 2)

InitFeedFaults ==
  /\ posts = PreferenceStore
  /\ likes = {}
  /\ user_interactions = { SeenRow, LessRow }
  /\ spammers = {}
  /\ reposts = {}
  /\ blocked_authors = {}
  /\ engagement_cache = {}
  /\ WorkerReady
  /\ flush_task = "running"
  /\ pure_call = NoCall
  /\ pending_posts = << >>
  /\ pending_likes = << >>
  /\ pending_deletes = << >>
  /\ pending_like_deletes = << >>
  /\ now = StartTime
  /\ phase = "serving"
  /\ ml_sent = 0
  /\ last_call = Call("new", None)
  /\ feed_result = NoFeed

\* a feed request during which one storage operation fails, or none
ServeFeedFaulty ==
  \E request \in Requests, posts_list \in get_feed(posts, now - FEED_CUTOFF) :
    \E variance \in [ Uris(posts) -> Jitters ], failed \in StorageFailures \cup { None } :
      serve_feed_with(request, posts_list, variance, failed)

NextFeedFaults ==
  \/ ServeFeedFaulty
  \/ deliver_feed

SpecFeedFaults == InitFeedFaults /\ [][NextFeedFaults]_vars

\* the step is a serve_feed call during which the storage operation f failed
FailedServe(f) ==
  /\ last_call'.op = "serve_feed"
  /\ last_call'.who = f
  /\ feed_result'.served
  /\ ~feed_result.served

\* C26 as stated: when a storage operation of serve_feed fails, serve_feed
\* returns an empty feed with no cursor.
C26_Original ==
  [][ \A f \in StorageFailures :
        FailedServe(f) => feed_result'.feed = << >> /\ feed_result'.cursor = << >> ]_vars

\* C26: serve_feed returns a FeedResult whatever fails. When the connection
\* checkout or the post listing fails the feed is empty and has no cursor. When
\* the seen-list lookup fails the feed is ranked as for a viewer who has seen
\* nothing: every listed post is ranked. When the preference lookup fails every
\* post is ranked with the neutral modifier.
C26_FailedReadsDegrade ==
  [][ /\ \A f \in { "pool.get", "get_feed" } :
           FailedServe(f) => feed_result'.feed = << >> /\ feed_result'.cursor = << >>
      /\ FailedServe("get_user_seen_posts") =>
           { feed_result'.scored_posts[i].uri : i \in DOMAIN feed_result'.scored_posts }
             = Uris(Listed)
      /\ FailedServe("get_user_preferences") =>
           \A i \in DOMAIN feed_result'.scored_posts :
             feed_result'.scored_posts[i].modifier = NEUTRAL ]_vars

\* the seen-list lookup failed and the feed the viewer got carries the post the
\* viewer had seen
C26_Witness ==
  /\ last_call = [ Call("serve_feed", "served") EXCEPT !.who = "get_user_seen_posts" ]
  /\ feed_result.served
  /\ feed_result.request.user_did = VIEWER
  /\ \E i \in DOMAIN feed_result.feed : feed_result.feed[i] = SeenRow.post_uri

(***************************************************************************)
(* The flush under storage failures.                                       *)
(***************************************************************************)
InitFlushFaults ==
  /\ InitCommon
  /\ posts = { PersistedRow }
  /\ phase = "serving"

\* a flush tick during which one storage operation fails, or none
FlushPendingFaulty ==
  \E failed \in FlushFailures \cup { None }, at \in 0..MaxPending :
    flush_pending_with(failed, at)

NextFlushFaults ==
  \/ InsertPost
  \/ DeletePost
  \/ InsertLike
  \/ DeleteLike
  \/ FlushPendingFaulty

SpecFlushFaults == InitFlushFaults /\ [][NextFlushFaults]_vars

\* the step is a flush_pending call during which a storage operation failed
FailedFlush ==
  /\ last_call'.op = "flush_pending"
  /\ last_call'.who \in FlushFailures
  /\ TotalPending > 0
  /\ ml_sent' = 0

\* the uris of the queued posts
QueuedUris(queue) == { queue[i].uri : i \in DOMAIN queue }

\* C27: when a storage operation fails during flush_pending, the flush loop
\* is still running afterwards and no pending mutation is lost: every pending
\* delete and unlike is applied or still queued, and every pending post and
\* like is stored or still queued.
C27_FailedFlushLosesNothing ==
  [][ FailedFlush =>
        /\ flush_task' = "running"
        /\ \A i \in DOMAIN pending_deletes :
             \/ pending_deletes[i] \notin Uris(posts') \ QueuedUris(pending_posts)
             \/ pending_deletes[i] \in Range(pending_deletes')
        /\ \A i \in DOMAIN pending_like_deletes :
             \/ \A l \in likes' : l.like_uri # pending_like_deletes[i]
             \/ pending_like_deletes[i] \in Range(pending_like_deletes')
        /\ \A i \in DOMAIN pending_posts :
             \/ pending_posts[i].uri \in Uris(posts')
             \/ pending_posts[i] \in Range(pending_posts')
        /\ \A i \in DOMAIN pending_likes :
             \/ pending_likes[i] \in likes'
             \/ pending_likes[i] \in Range(pending_likes') ]_vars

(***************************************************************************)
(* apply_filters as a function of its arguments.                           *)
(***************************************************************************)
\* a short text that names a blocked keyword and a blocked hashtag
TEXT_SHORT_NFT == << "n","f","t"," ","#","n","f","t" >>

HASHTAG_A == << " ","#","a" >>

\* a long enough text with seven hashtags
TEXT_TAGS ==
  TEXT_GODOT \o HASHTAG_A \o HASHTAG_A \o HASHTAG_A \o HASHTAG_A \o HASHTAG_A
             \o HASHTAG_A \o HASHTAG_A

FilterTexts == { TEXT_HI, TEXT_SHORT_NFT, TEXT_NFT, TEXT_DEVLOG, TEXT_GODOT, TEXT_TAGS }

\* Option<&str>: no language tag, or one
FilterLangs == { << >>, << EN_TAG >>, << PT_TAG >> }

FilterAuthors == { None, "did:a1", "did:a2" }

\* the external link of the embed (an Option) and the links of the facets
FilterLinks ==
  { [ external_uri |-> << >>, facet_links |-> << >> ],
    [ external_uri |-> << URL_ITCH >>, facet_links |-> << >> ],
    [ external_uri |-> << >>, facet_links |-> << URL_EXAMPLE >> ],
    [ external_uri |-> << >>, facet_links |-> << URL_EXAMPLE, URL_ITCH >> ] }

FilterArgs ==
  [ text : FilterTexts, lang : FilterLangs, author_did : FilterAuthors, links : FilterLinks,
    spammer_set : { {}, { "did:a1" } }, blocked_set : { {}, { "did:a1" }, { "did:a2" } } ]

\* the lang argument of the call
lang_of(a) == IF a.lang = << >> THEN None ELSE a.lang[1]

\* the media argument of the call
media_of(a) ==
  [ MediaInfo_default EXCEPT
      !.external_uri = IF a.links.external_uri = << >> THEN None ELSE a.links.external_uri[1],
      !.facet_links = a.links.facet_links ]

\* a call of the pure function fn on the arguments args that has not returned
Pending(fn, args) == [ fn |-> fn, args |-> args, result |-> << >> ]

\* the handler at rest while one of the given calls is made
InitPure(calls) ==
  /\ posts = {}
  /\ likes = {}
  /\ user_interactions = {}
  /\ spammers = {}
  /\ reposts = {}
  /\ blocked_authors = {}
  /\ engagement_cache = {}
  /\ WorkerReady
  /\ flush_task = "running"
  /\ pure_call \in calls
  /\ pending_posts = << >>
  /\ pending_likes = << >>
  /\ pending_deletes = << >>
  /\ pending_like_deletes = << >>
  /\ now = StartTime
  /\ phase = "serving"
  /\ ml_sent = 0
  /\ last_call = Call("new", None)
  /\ feed_result = NoFeed

\* the call under way returns
returns(result) ==
  /\ pure_call.result = << >>
  /\ pure_call' = [ pure_call EXCEPT !.result = << result >> ]
  /\ UNCHANGED << worker_vars, flush_task, posts, likes, user_interactions, spammers, reposts,
                  blocked_authors, engagement_cache, pending_posts, pending_likes,
                  pending_deletes, pending_like_deletes, now, phase, ml_sent, last_call,
                  feed_result >>

InitFilters == InitPure({ Pending("apply_filters", a) : a \in FilterArgs })

call_apply_filters ==
  /\ pure_call.fn = "apply_filters"
  /\ LET a == pure_call.args
     IN  returns(apply_filters(a.text, lang_of(a), a.author_did, media_of(a),
                               a.spammer_set, a.blocked_set))

NextFilters == call_apply_filters

SpecFilters == InitFilters /\ [][NextFilters]_vars

\* the predicates of the chain in their order, the two author checks as one
FILTER_ORDER ==
  << "MinLength", "EnglishOnly", "BlockedKeyword", "BlockedHashtag", "BlockedAuthor/Spammer",
     "PromoLink", "TooManyHashtags" >>

\* the predicate named name fails on the arguments a
Fails(name, a) ==
  CASE name = "MinLength" -> Len(strip_hashtags(a.text)) < min_text_length
    [] name = "EnglishOnly" -> a.lang # << >> /\ ~starts_with(a.lang[1], EN)
    [] name = "BlockedKeyword" ->
         \E k \in DOMAIN blocked_keywords : contains(to_lowercase(a.text), blocked_keywords[k])
    [] name = "BlockedHashtag" ->
         \E k \in DOMAIN blocked_hashtags : contains(to_lowercase(a.text), blocked_hashtags[k])
    [] name = "BlockedAuthor/Spammer" ->
         a.author_did # None /\ a.author_did \in a.blocked_set \cup a.spammer_set
    [] name = "PromoLink" ->
         \/ \E i \in DOMAIN a.links.facet_links : is_promo_domain(a.links.facet_links[i])
         \/ (a.links.external_uri # << >> /\ is_promo_domain(a.links.external_uri[1]))
    [] name = "TooManyHashtags" -> count_all_hashtags(a.text) > max_hashtags

\* the place in the order of the predicate a rejection names
PlaceOf(filter) ==
  IF filter \in { "BlockedAuthor", "Spammer" } THEN 5
  ELSE CHOOSE k \in DOMAIN FILTER_ORDER : FILTER_ORDER[k] = filter

\* C28: apply_filters returns Pass iff no predicate fails, and otherwise the
\* reason of the first failing predicate in the order MinLength, EnglishOnly,
\* BlockedKeyword, BlockedHashtag, BlockedAuthor/Spammer, PromoLink,
\* TooManyHashtags; a text whose hashtag-stripped length is below
\* min_text_length is rejected with MinLength whatever the other arguments.
C28_FirstFailingPredicate ==
  (pure_call.fn = "apply_filters" /\ pure_call.result # << >>) =>
    LET a == pure_call.args
        r == pure_call.result[1]
        failing == { k \in DOMAIN FILTER_ORDER : Fails(FILTER_ORDER[k], a) }
    IN  /\ (r.kind = "Pass") <=> (failing = {})
        /\ IsReject(r) => /\ PlaceOf(r.filter) \in failing
                          /\ \A k \in failing : PlaceOf(r.filter) <= k
        /\ Fails("MinLength", a) => IsReject(r) /\ r.filter = "MinLength"

\* a short text in Portuguese that names a blocked keyword, by a blocked
\* author, with a promotional link, was rejected for its length
C28_Witness ==
  /\ pure_call.fn = "apply_filters"
  /\ pure_call.result # << >>
  /\ pure_call.args.text = TEXT_SHORT_NFT
  /\ pure_call.args.lang = << PT_TAG >>
  /\ pure_call.args.author_did \in pure_call.args.blocked_set
  /\ pure_call.args.links.external_uri = << URL_ITCH >>
  /\ pure_call.result[1].kind = "Reject"
  /\ pure_call.result[1].filter = "MinLength"

(***************************************************************************)
(* calculate_priority as a function of its arguments.                      *)
(***************************************************************************)
\* link counts: none, one, and enough for the penalty to reach 2^23
LinkCounts == { 0, 1, 15 }

PriorityScores == { calculate_score(0, 0), calculate_score(500, 500), calculate_score(900, 700) }

PrioritySignals ==
  { [ PrioritySignals_default EXCEPT
        !.label_boost = v[1], !.engagement_bait_score = v[2], !.authenticity_score = v[3],
        !.images = v[4], !.link_count = v[5], !.promo_link_count = v[6], !.reply_count = v[7],
        !.is_first_person = b[1], !.has_video = b[2], !.has_alt_text = b[3] ] :
      v \in { 0, 1000 } \X { 0, 900 } \X { 0, 300 } \X { 0, 1, 3 } \X LinkCounts
              \X { 0, 1 } \X { 0, 2 },
      b \in BOOLEAN \X BOOLEAN \X BOOLEAN }

PriorityArgs == [ score : PriorityScores, signals : PrioritySignals ]

InitPriority ==
  InitPure({ Pending("calculate_priority", a) : a \in PriorityArgs }
           \cup { Pending("first_person_switch", a) :
                    a \in { x \in PriorityArgs : ~x.signals.is_first_person } })

call_calculate_priority ==
  /\ pure_call.fn = "calculate_priority"
  /\ returns(calculate_priority(pure_call.args.score, pure_call.args.signals))

\* test_first_person_boost: the priority without and with is_first_person
first_person_switch ==
  /\ pure_call.fn = "first_person_switch"
  /\ LET score == pure_call.args.score
         signals == pure_call.args.signals
     IN  returns([ without |-> calculate_priority(score, signals),
                   with |-> calculate_priority(score,
                                               [ signals EXCEPT !.is_first_person = TRUE ]) ])

NextPriority ==
  \/ call_calculate_priority
  \/ first_person_switch

SpecPriority == InitPriority /\ [][NextPriority]_vars

\* C29: calculate_priority on all-zero signals (zero scores, zero counts, all
\* flags false, zero label boost) returns a final priority of exactly 0 with
\* an empty boost list and an empty penalty list.
C29_ZeroSignalsZeroPriority ==
  ( /\ pure_call.fn = "calculate_priority"
    /\ pure_call.result # << >>
    /\ pure_call.args.score = calculate_score(0, 0)
    /\ pure_call.args.signals = PrioritySignals_default ) =>
    /\ pure_call.result[1].final_priority = 0
    /\ pure_call.result[1].boost_reasons = << >>
    /\ pure_call.result[1].penalty_reasons = << >>

\* the entries of a reason list that name the first-person bonus
FirstPersonEntries(reasons) == { i \in DOMAIN reasons : reasons[i] = "first-person:" }

\* C30: for any signals with is_first_person = false, switching only
\* is_first_person to true strictly increases the final priority and adds
\* exactly one boost entry, which names the first-person bonus; the penalty
\* list is unchanged.
C30_FirstPersonStrictlyIncreases ==
  (pure_call.fn = "first_person_switch" /\ pure_call.result # << >>) =>
    LET without == pure_call.result[1].without
        with == pure_call.result[1].with
    IN  /\ with.final_priority > without.final_priority
        /\ Len(with.boost_reasons) = Len(without.boost_reasons) + 1
        /\ Cardinality(FirstPersonEntries(with.boost_reasons)) = 1
        /\ FirstPersonEntries(without.boost_reasons) = {}
        /\ with.penalty_reasons = without.penalty_reasons

(***************************************************************************)
(* has_keywords and has_hashtags as functions of the text.                 *)
(***************************************************************************)
Chars(word) == [ i \in 1..Len(word) |-> word[i] ]

TOKEN_GODOT == << "g","o","d","o","t" >>

TOKEN_GODOT_CAPS == << "G","O","D","O","T" >>

TOKEN_GODOTBELT == << "G","o","d","o","t","B","e","l","t" >>

TOKEN_GAME_DEV == << "g","a","m","e"," ","d","e","v" >>

TOKEN_GAMEDEVS == << "g","a","m","e","d","e","v","s" >>

TOKEN_RADIO == << "r","a","d","i","o" >>

TAG_RUST == << "#","r","u","s","t" >>

TAG_RUST_CAPS == << "#","R","U","S","T" >>

TAG_RUSTBELT == << "#","R","u","s","t","B","e","l","t","L","i","v","i","n","g" >>

TAG_RUSTLANG == << "#","r","u","s","t","l","a","n","g" >>

TAG_INDIEGAMES == << "#","i","n","d","i","e","g","a","m","e","s" >>

TAG_GODOT4 == << "#","g","o","d","o","t","4" >>

TAG_RADIO == << "#","r","a","d","i","o" >>

RelevanceTokens ==
  { TOKEN_GODOT, TOKEN_GODOT_CAPS, TOKEN_GODOTBELT, TOKEN_GAME_DEV, TOKEN_GAMEDEVS, TOKEN_RADIO,
    TAG_RUST, TAG_RUST_CAPS, TAG_RUSTBELT, TAG_RUSTLANG, TAG_INDIEGAMES, TAG_GODOT4, TAG_RADIO }

RelevancePrefixes == { << >>, << "m","y"," " >>, << "a","-" >> }

RelevanceSuffixes == { << >>, << " ","n","o","w" >>, << "!" >> }

RelevanceTexts ==
  { p \o t \o s : p \in RelevancePrefixes, t \in RelevanceTokens, s \in RelevanceSuffixes }

InitRelevance ==
  InitPure({ Pending(fn, [ text |-> t ]) :
               fn \in { "has_keywords", "has_hashtags" }, t \in RelevanceTexts })

call_has_keywords ==
  /\ pure_call.fn = "has_keywords"
  /\ returns([ found |-> has_keywords(pure_call.args.text),
               count |-> keyword_count(pure_call.args.text) ])

call_has_hashtags ==
  /\ pure_call.fn = "has_hashtags"
  /\ returns([ found |-> has_hashtags(pure_call.args.text),
               count |-> hashtag_count(pure_call.args.text) ])

NextRelevance ==
  \/ call_has_keywords
  \/ call_has_hashtags

SpecRelevance == InitRelevance /\ [][NextRelevance]_vars

\* the #word tokens of a text
HashtagTokens(s) == { SubSeq(s, i, WordEnd(s, i + 1) - 1) : i \in HashtagStarts(s) }

\* the configured hashtags that are a #word token of the text, whatever the case
WholeHashtags(text) ==
  { k \in DOMAIN GAMEDEV_HASHTAGS : GAMEDEV_HASHTAGS[k] \in HashtagTokens(to_lowercase(text)) }

\* the keyword starts at i in s and is not a part of a longer word
WholeWordAt(s, keyword, i) ==
  /\ SubSeq(s, i, i + Len(keyword) - 1) = keyword
  /\ i = 1 \/ ~IsAlnum(s[i - 1])
  /\ i + Len(keyword) > Len(s) \/ ~IsAlnum(s[i + Len(keyword)])

\* the configured keywords that stand in the text as whole words, whatever the case
WholeKeywords(text) ==
  { k \in DOMAIN GAMEDEV_KEYWORDS :
      \E i \in 1..(Len(text) - Len(GAMEDEV_KEYWORDS[k]) + 1) :
        WholeWordAt(to_lowercase(text), GAMEDEV_KEYWORDS[k], i) }

\* C31: has_keywords and has_hashtags match whole tokens only, whatever the
\* case: the count has_keywords returns is the number of configured keywords
\* that stand in the text as whole words, the count has_hashtags returns is the
\* number of configured hashtags equal to a #word token of the text, and the
\* flag of each is true exactly when its count is positive.
C31_WholeTokenMatches ==
  /\ (pure_call.fn = "has_keywords" /\ pure_call.result # << >>) =>
       /\ pure_call.result[1].count = Cardinality(WholeKeywords(pure_call.args.text))
       /\ pure_call.result[1].found <=> pure_call.result[1].count > 0
  /\ (pure_call.fn = "has_hashtags" /\ pure_call.result # << >>) =>
       /\ pure_call.result[1].count = Cardinality(WholeHashtags(pure_call.args.text))
       /\ pure_call.result[1].found <=> pure_call.result[1].count > 0

(***************************************************************************)
(* The interactions endpoint: lists of events, some of a kind the handler  *)
(* does not store, some told twice.                                        *)
(***************************************************************************)
\* the events of one request
ReportedEvents ==
  { [ event |-> "InteractionSeen", item |-> "at://a1/1" ],
    [ event |-> "RequestLess", item |-> "at://a1/1" ],
    [ event |-> "RequestMore", item |-> "at://a2/1" ],
    [ event |-> "InteractionLike", item |-> "at://a1/1" ],
    [ event |-> "ClickthroughItem", item |-> "at://a2/1" ] }

\* the requests: one event, or two
InteractionLists ==
  { << x >> : x \in ReportedEvents } \cup { << x, y >> : x, y \in ReportedEvents }

InitInteractions ==
  /\ InitCommon
  /\ posts = PreferenceStore
  /\ phase = "serving"

HandleInteractionLists ==
  \E interactions \in InteractionLists : handle_interactions(VIEWER, interactions)

NextInteractions ==
  \/ HandleInteractionLists
  \/ Tick

SpecInteractions == InitInteractions /\ [][NextInteractions]_vars

RecognizedKinds == { INTERACTION_SEEN, INTERACTION_REQUEST_LESS, INTERACTION_REQUEST_MORE }

\* the keys a request adds: one for each event of a recognized kind
ReportedKeys(user_did, interactions) ==
  { << user_did, interactions[i].item, interaction_type_of(interactions[i].event)[1], now >> :
      i \in { j \in DOMAIN interactions : interaction_type_of(interactions[j].event) # << >> } }

StoredKeys(tbl) == { interaction_key(r) : r \in tbl }

\* C32: handle_interactions stores an interaction only when its kind is seen,
\* request_more or request_less; an event of another kind is dropped and the
\* call still completes; the same (user_did, post_uri, kind, created_at) told
\* twice leaves one row.
C32_RecognizedKindsStoredOnce ==
  /\ [](\A r \in user_interactions : r.interaction_type \in RecognizedKinds)
  /\ [](\A r1, r2 \in user_interactions :
          interaction_key(r1) = interaction_key(r2) => r1 = r2)
  /\ [][ \A interactions \in InteractionLists :
           handle_interactions(VIEWER, interactions) =>
             /\ StoredKeys(user_interactions')
                  = StoredKeys(user_interactions) \cup ReportedKeys(VIEWER, interactions)
             /\ last_call'.result = "done" ]_vars

\* a request told the same recognized event twice, and a second request told
\* it again in the same second: the table holds one row
C32_Witness ==
  /\ last_call.op = "handle_interactions"
  /\ last_call.rows = 2
  /\ Cardinality(user_interactions) = 1


\* ---------------------------------------------------------------------------
\* serve_feed as a function of its inputs
\* ---------------------------------------------------------------------------
\* the values a seeded generator hands out, in the order they are drawn
JitterDraws == [ 1..Cardinality(posts) -> Jitters ]

\* the k-th draw goes to the k-th unseen row of the listing (handler.rs 352-380)
drawn_for(request, posts_list, draws) ==
  LET unseen_posts == unseen(posts_list,
                             seen_posts_of(request, user_interactions, now - FEED_CUTOFF))
  IN  [ u \in { posts_list[i].uri : i \in DOMAIN posts_list } |->
          IF \E k \in DOMAIN unseen_posts : unseen_posts[k].uri = u
          THEN draws[CHOOSE k \in DOMAIN unseen_posts : unseen_posts[k].uri = u]
          ELSE 0 ]

\* C33: for the same viewer, cursor, limit, store content, current time and
\* jitter values, any two calls of serve_feed return the same feed page and
\* the same next cursor
C33_SameInputsSamePage ==
  \A request \in Requests : \A draws \in JitterDraws :
    \A rows1 \in get_feed(posts, now - FEED_CUTOFF) :
      \A rows2 \in get_feed(posts, now - FEED_CUTOFF) :
        LET first == feed_answer(request, rows1, drawn_for(request, rows1, draws), None)
            second == feed_answer(request, rows2, drawn_for(request, rows2, draws), None)
        IN  /\ first.feed = second.feed
            /\ first.cursor = second.cursor

\* C34: the backfill dedupes by uri: a uri that several search queries return,
\* or that the store already holds, is accepted at most once in a run, so the
\* rows a run accepts are as many as the uris it adds to the store
C34_BackfillAcceptsUriOnce ==
  [][ phase = "backfill" /\ last_call'.op = "run_backfill" =>
        last_call'.rows = Cardinality({ p.uri : p \in posts' } \ { p.uri : p \in posts })
    ]_vars

\* ---------------------------------------------------------------------------
\* The flush timer under fair scheduling
\* ---------------------------------------------------------------------------
\* main.rs 84-96: the flush task ticks every 10 s and takes the handler lock,
\* a tokio Mutex, which is granted in the order it is asked for
FairSpec == Spec /\ WF_vars(flush_pending)

\* the uris of the posts queued for insertion with no delete queued for them
AwaitingFlush ==
  { pending_posts[i].uri : i \in DOMAIN pending_posts } \ Range(pending_deletes)

\* C35: with the flush timer scheduled fairly and a store that answers, every
\* post appended to pending_posts whose uri has no pending delete is in the
\* post store after the next flush, and after each successful flush the four
\* pending queues are empty
C35_PendingPostsReachStore ==
  /\ [][ flush_pending =>
           /\ TotalPending' = 0
           /\ \A uri \in AwaitingFlush : post_exists(posts', uri) ]_vars
  /\ \A uri \in URIS : (uri \in AwaitingFlush) ~> post_exists(posts, uri)

\* a flush has put a queued post into the store
C35_Witness ==
  /\ last_call.op = "flush_pending"
  /\ last_call.result = "flushed"
  /\ last_call.rows = 1
  /\ Cardinality(posts) = 2
  /\ TotalPending = 0

\* the rows the age purge of a cleanup at this state leaves
AfterAgePurge == { r \in posts : r.timestamp >= now - FEED_CUTOFF }

\* C36: when the posts left by the age purge exceed max_stored_posts by k,
\* cleanup_old_posts deletes exactly k further posts, each no newer than any
\* retained post, and after the cleanup no stored post is older than the cutoff
C36_CapDeletesOldest ==
  [][ cleanup_old_posts =>
        LET excess == Cardinality(AfterAgePurge) - MAX_STORED_POSTS
            deleted_by_limit == AfterAgePurge \ posts'
        IN  /\ posts' \subseteq AfterAgePurge
            /\ Cardinality(deleted_by_limit) = IF excess > 0 THEN excess ELSE 0
            /\ \A d \in deleted_by_limit : \A r \in posts' : d.timestamp <= r.timestamp
            /\ \A r \in posts' : r.timestamp >= now - FEED_CUTOFF ]_vars

\* a cleanup over the cap removed the row of the earlier run and kept newer rows
C36_Witness ==
  /\ last_call = Call("cleanup_old_posts", "capped")
  /\ Cardinality(posts) = MAX_STORED_POSTS
  /\ PersistedRow.timestamp >= now - FEED_CUTOFF
  /\ \A r \in posts : r.timestamp > PersistedRow.timestamp

\* ---------------------------------------------------------------------------
\* The engagement tables over the cleanup timer
\* ---------------------------------------------------------------------------
\* the counters an earlier run recorded with OldRepost, before the feed cutoff
OldCounters ==
  update_engagement_cache({}, { OldRepost }, {}, "at://a1/1", OldRepost.timestamp)

\* the counters of a second post, recorded just before the specification starts
FreshCounters ==
  update_engagement_cache({}, {}, {}, "at://a2/1", StartTime)

InitEngagement ==
  /\ posts = { PersistedRow }
  /\ likes = {}
  /\ user_interactions = {}
  /\ spammers = {}
  /\ reposts = { OldRepost }
  /\ blocked_authors = {}
  /\ engagement_cache = OldCounters \cup FreshCounters
  /\ WorkerReady
  /\ flush_task = "running"
  /\ pure_call = NoCall
  /\ pending_posts = << >>
  /\ pending_likes = << >>
  /\ pending_deletes = << >>
  /\ pending_like_deletes = << >>
  /\ now = StartTime
  /\ phase = "serving"
  /\ ml_sent = 0
  /\ last_call = Call("new", None)
  /\ feed_result = NoFeed

LikeCounted == \E like_uri \in LIKE_URIS : insert_like(like_uri, "at://a2/1")

NextEngagement ==
  \/ RecordRepost
  \/ LikeCounted
  \/ flush_pending
  \/ cleanup_old_posts
  \/ Tick

SpecEngagement == InitEngagement /\ [][NextEngagement]_vars

\* C37: engagement counters are purged by age: after the cleanup timer has run,
\* no engagement-counter entry whose last update is older than the cutoff
\* remains in the store
C37_OldCountersPurged ==
  [][ cleanup_old_posts =>
        \A entry \in engagement_cache' : entry.last_updated >= now - FEED_CUTOFF ]_vars

\* ---------------------------------------------------------------------------
\* Topic classification: classification.rs
\* ---------------------------------------------------------------------------
LABEL_GAMER == "gamer discussing games they play"

LABEL_GENAI == "AI generated"

\* TopicLabel::multiplier in thousandths, for the labels of the model
multiplier(label) ==
  CASE label = LABEL_SHARING -> 2000
    [] label = LABEL_PROGRAMMING -> 1200
    [] label = LABEL_GAMER -> 800
    [] label = LABEL_GENAI -> 0
    [] label = LABEL_UNRELATED -> 200

\* TopicLabel::from_str: the label of that name, if there is one
from_str(s) ==
  IF s \in { LABEL_SHARING, LABEL_PROGRAMMING, LABEL_GAMER, LABEL_GENAI, LABEL_UNRELATED }
  THEN << s >> ELSE << >>

is_positive(label) == multiplier(label) >= 1000

TopicClassification_default ==
  [ score |-> 0, best_label |-> "", best_label_score |-> 0, is_negative_label |-> FALSE ]

\* the topic score that ignores the sign of the label
topic_score_raw(positive, best_score) == best_score

\* let score = if is_positive { *best_score } else { 1.0 - best_score }
topic_score(positive, best_score) == IF positive THEN best_score ELSE 1000 - best_score

\* all_scores.sort_by(|a, b| b.1.partial_cmp(&a.1).unwrap()).first(): the sort is
\* stable, so of the labels of the highest score the first one predicted leads
first_of_sorted(labels) ==
  labels[CHOOSE i \in DOMAIN labels :
           /\ \A j \in DOMAIN labels : labels[j].score <= labels[i].score
           /\ \A j \in DOMAIN labels : j < i => labels[j].score < labels[i].score]

\* classify_topic_batch for one text: the prediction is an error of the
\* classifier or the labels with their scores
classify_topic(prediction) ==
  IF ~prediction.ok \/ prediction.labels = << >> THEN TopicClassification_default
  ELSE LET best == first_of_sorted(prediction.labels)
           positive == from_str(best.text) # << >> /\ is_positive(from_str(best.text)[1])
       IN  [ score |-> topic_score(positive, best.score), best_label |-> best.text,
             best_label_score |-> best.score, is_negative_label |-> ~positive ]

\* run_ml_worker: the topic fields of the MLScores sent for one text
topic_scores(topic) ==
  worker_answer([ MLScores_default EXCEPT
                    !.classification_score = topic.score,
                    !.best_label = topic.best_label,
                    !.best_label_score = topic.best_label_score,
                    !.is_negative_label = topic.is_negative_label ])

\* the labels the classifier is asked about, and one it was not
PredictedLabels == { LABEL_SHARING, LABEL_GAMER, LABEL_UNRELATED, "other" }

\* scores around the rejection threshold
PredictedScores == { 600, NEGATIVE_REJECTION_MIN - 1, NEGATIVE_REJECTION_MIN, 900 }

\* what predict_multilabel answers for one text
Predictions ==
  { [ ok |-> FALSE, labels |-> << >> ], [ ok |-> TRUE, labels |-> << >> ] }
    \cup { [ ok |-> TRUE, labels |-> << [ text |-> l1, score |-> s1 ],
                                        [ text |-> l2, score |-> s2 ] >> ] :
             l1 \in PredictedLabels, l2 \in PredictedLabels \ { LABEL_GAMER },
             s1 \in PredictedScores, s2 \in PredictedScores }

InitTopics == InitPure({ Pending("classify_topic_batch", p) : p \in Predictions })

call_classify_topic_batch ==
  /\ pure_call.fn = "classify_topic_batch"
  /\ returns(topic_scores(classify_topic(pure_call.args)))

NextTopics == call_classify_topic_batch

SpecTopics == InitTopics /\ [][NextTopics]_vars

\* the labels of the positive set
PositiveLabels == { LABEL_SHARING, LABEL_PROGRAMMING }

\* the result says of its top label what the rule of the topic score asks
FollowsTopLabel(scores) ==
  /\ scores.negative_rejection <=>
       (scores.best_label \notin PositiveLabels
          /\ scores.best_label_score >= NEGATIVE_REJECTION_MIN)
  /\ scores.classification_score =
       IF scores.best_label \in PositiveLabels THEN scores.best_label_score
       ELSE 1000 - scores.best_label_score

\* C38 as stated: every ML result, the default one of a failed classification included
C38_Original ==
  pure_call.result # << >> => FollowsTopLabel(pure_call.result[1])

\* C38: for every ML result of a classification that ranked the labels, the top
\* label is a label of the highest score, negative_rejection is true exactly
\* when that label is not in the positive set and its score is >= 0.85, and the
\* topic score is the top score for a positive label and 1 - top score
\* otherwise; a classification that failed or ranked nothing gives the default
\* result, score 0 and no rejection
C38_RankedResultsFollowTopLabel ==
  pure_call.result # << >> =>
    LET prediction == pure_call.args
        scores == pure_call.result[1]
    IN  IF prediction.ok /\ prediction.labels # << >>
        THEN /\ \E i \in DOMAIN prediction.labels :
                  /\ prediction.labels[i].text = scores.best_label
                  /\ prediction.labels[i].score = scores.best_label_score
             /\ \A i \in DOMAIN prediction.labels :
                  prediction.labels[i].score <= scores.best_label_score
             /\ FollowsTopLabel(scores)
        ELSE scores = MLScores_default

\* a label outside the positive set ranked first with exactly the threshold score
C38_Witness ==
  /\ pure_call.fn = "classify_topic_batch"
  /\ pure_call.result # << >>
  /\ pure_call.result[1].best_label = LABEL_GAMER
  /\ pure_call.result[1].best_label_score = NEGATIVE_REJECTION_MIN
  /\ pure_call.result[1].negative_rejection
  /\ pure_call.result[1].classification_score = 1000 - NEGATIVE_REJECTION_MIN

\* the likes queued since the last flush whose unlike was the last event received
UnlikedAfterLike ==
  { like \in Range(pending_likes) :
      /\ last_call.op = "delete_like"
      /\ pending_like_deletes # << >>
      /\ pending_like_deletes[Len(pending_like_deletes)] = like.like_uri
      /\ post_exists(posts, like.post_uri)
      /\ like.post_uri \notin Range(pending_deletes) }

\* C39: the stored result of a like followed by its unlike follows the event
\* order: when insert_like(L, P) and then delete_like(L) are received between
\* two flushes and P is stored, the like L is not in the store after the next flush
C39_UnlikeAfterLikeWins ==
  [][ flush_pending =>
        \A like \in UnlikedAfterLike : \A l \in likes' : l.like_uri # like.like_uri ]_vars

\* ---------------------------------------------------------------------------
\* record_repost over a store that may fail
\* ---------------------------------------------------------------------------
RecordRepostFaulty ==
  \E ev \in RepostEvents, failed \in RepostFailures \cup { None } :
    record_repost_with("at://a1/1", ev.repost_uri, ev.reposter_did, failed)

NextRepostFaults ==
  \/ RecordRepostFaulty
  \/ FlagSpammer
  \/ cleanup_old_posts
  \/ Tick

SpecRepostFaults == InitModeration /\ [][NextRepostFaults]_vars

\* C40: record_repost returns SpamDetected only when the repost frequency of
\* the reposter within the window has reached repost_threshold, and whenever
\* it returns SpamDetected the reposter is in the spammer registry; a storage
\* failure is never reported to the caller as spam
C40_SpamDetectedMeansSpam ==
  [][ \A d \in Reposters :
        RepostStep(d) /\ last_call'.result = "SpamDetected" =>
          /\ AtThreshold(d)
          /\ is_spammer(spammers', d) ]_vars
====
